---- MODULE Spec2Model ----
(***************************************************************************)
(* Joint state-space search for two walkers driven by one instruction      *)
(* stream (bfs.rs, astar.rs, delta_list.rs, instructions.rs).              *)
(*                                                                         *)
(* Conventions: a joint state is the tuple <<x0, y0, x1, y1>> (Rust        *)
(* [Coordinate; 4], index i of the source is index i+1 here); maps is the  *)
(* pair <<map0, map1>>; an instruction is <<x_dimension, direction>>.      *)
(***************************************************************************)
EXTENDS Integers, Sequences, FiniteSets, TLC

(***************************************************************************)
(* Bounds of the model.                                                    *)
(***************************************************************************)
\* most inner wall segments of one map
MaxWalls == 1
\* most holes of one map
MaxHoles == 2
\* most worker threads of the multi-threaded search
MaxThreads == 2
MaxPushes == 4
MaxExpansions == 2

(***************************************************************************)
(* Small helpers.                                                          *)
(***************************************************************************)
Min(a, b) == IF a <= b THEN a ELSE b
Max(a, b) == IF a >= b THEN a ELSE b
B2N(b) == IF b THEN 1 ELSE 0

\* the one element of a one-element set.  An intermediate result that is
\* used more than once is bound by a quantifier over {result}, which TLC
\* evaluates once: The({f(r) : r \in {e}}) is f(e).
The(S) == CHOOSE x \in S : TRUE

\* the directions left in the order of the back-walk
Reverse_kept(s) == s

\* dirs.into_iter().rev()
RECURSIVE Reverse(_)
Reverse(s) == IF s = <<>> THEN <<>> ELSE Append(Reverse(Tail(s)), Head(s))

\* the elements of a finite set of integers in increasing order
RECURSIVE SortedSeq(_)
SortedSeq(S) ==
    IF S = {} THEN <<>>
    ELSE LET m == CHOOSE x \in S : \A y \in S : x <= y
         IN  <<m>> \o SortedSeq(S \ {m})

(***************************************************************************)
(* Map: wall bitsets, hole bitset and the ordered hole list.               *)
(***************************************************************************)
horizontal_wall_index(map, x, y) == x * (map.height + 1) + y
vertical_wall_index(map, x, y) == y * (map.width + 1) + x
tile_index_with(x, y, width) == width * y + x
tile_index(map, x, y) == tile_index_with(x, y, map.width)

\* Map::read: the perimeter is pre-marked, then the inner segments and the
\* holes of the input are inserted.  inner_v holds the <<x, y>> of the inner
\* vertical segments that are walls (1 <= x < width), inner_h those of the
\* inner horizontal segments (1 <= y < height), hole_list the hole tiles in
\* input order.
MapRead(width, height, inner_v, inner_h, hole_list) ==
    LET m0 == [width |-> width, height |-> height]
    IN  [width |-> width,
         height |-> height,
         vertical_walls |->
              {vertical_wall_index(m0, 0, y) : y \in 0..(height - 1)}
              \cup {vertical_wall_index(m0, width, y) : y \in 0..(height - 1)}
              \cup {vertical_wall_index(m0, p[1], p[2]) : p \in inner_v},
         horizontal_walls |->
              {horizontal_wall_index(m0, x, 0) : x \in 0..(width - 1)}
              \cup {horizontal_wall_index(m0, x, height) : x \in 0..(width - 1)}
              \cup {horizontal_wall_index(m0, p[1], p[2]) : p \in inner_h},
         holes |-> {tile_index(m0, hole_list[i][1], hole_list[i][2]) :
                        i \in 1..Len(hole_list)},
         holes_placement |-> hole_list]

\* an end state that puts the second walker in the first row
end_state_first_row(width, height) == <<width - 1, height - 1, width - 1, 0>>

end_state(width, height) == <<width - 1, height - 1, width - 1, height - 1>>

calculate_visited_index(state, width, tiles_count) ==
    (state[2] * width + state[1]) * tiles_count + (state[4] * width + state[3])

\* every coordinate of the joint state lies in the grid
InGrid(state, width, height) ==
    /\ state[1] \in 0..(width - 1) /\ state[2] \in 0..(height - 1)
    /\ state[3] \in 0..(width - 1) /\ state[4] \in 0..(height - 1)

(***************************************************************************)
(* The input family: every map of the given size with at most MaxWalls     *)
(* inner wall segments and at most MaxHoles holes, none on (0,0) or on     *)
(* (W-1,H-1); the hole list is in tile order.                              *)
(***************************************************************************)
InnerV(width, height) == (1..(width - 1)) \X (0..(height - 1))
InnerH(width, height) == (0..(width - 1)) \X (1..(height - 1))
HoleTiles(width, height) ==
    (0..(width * height - 1)) \ {0, width * height - 1}

HoleList(S, width) ==
    LET s == SortedSeq(S)
    IN  [i \in 1..Len(s) |-> <<s[i] % width, s[i] \div width>>]

MapsOfSize(width, height) ==
    { MapRead(width, height, V, Hs, HoleList(Ho, width)) :
        <<V, Hs, Ho>> \in
          { t \in (SUBSET InnerV(width, height))
                    \X (SUBSET InnerH(width, height))
                    \X (SUBSET HoleTiles(width, height)) :
               /\ Cardinality(t[1]) + Cardinality(t[2]) <= MaxWalls
               /\ Cardinality(t[3]) <= MaxHoles } }

(***************************************************************************)
(* Delta codes.                                                            *)
(***************************************************************************)
bits2val(bits) ==
    B2N(bits[1]) * 8 + B2N(bits[2]) * 4 + B2N(bits[3]) * 2 + B2N(bits[4])

val2bits(val) ==
    << (val \div 8) % 2 = 1, (val \div 4) % 2 = 1,
       (val \div 2) % 2 = 1, val % 2 = 1 >>

\* bitwise or of two 4-bit values (AtomicU64::fetch_or restricted to one slot)
BitOr4(a, b) ==
    bits2val([i \in 1..4 |-> val2bits(a)[i] \/ val2bits(b)[i]])

(***************************************************************************)
(* DeltaList backends (delta_list.rs).  A list is a record tagged with its *)
(* kind.  A bitset is the set of its set bits; the atomic word arrays are  *)
(* kept per slot (an atomic operation of the source touches the bits of    *)
(* one slot only, through the mask it builds from the slot index).         *)
(* panicked records that a call hit unreachable!().                        *)
(***************************************************************************)
Kinds == {"BitSet", "LazyHashMap", "AtomicBitSet", "CompareAndSwapAtomicBitSet"}
SyncKinds == {"BitSet", "LazyHashMap"}
AsyncKinds == {"AtomicBitSet", "CompareAndSwapAtomicBitSet"}

BitSetDeltaList_new(len) ==
    [kind |-> "BitSet", len |-> len, bit_sets |-> <<{}, {}, {}, {}>>,
     panicked |-> FALSE]

inner_get_bits(l, index) == [i \in 1..4 |-> index \in l.bit_sets[i]]

\* inner_set_bits without the test of the slot: every call writes
inner_set_bits_untested(l, FORCED, index, bits) ==
    [list |-> [l EXCEPT !.bit_sets =
                 [i \in 1..4 |-> IF bits[i] THEN @[i] \cup {index}
                                            ELSE @[i] \ {index}]],
     ret |-> TRUE]

inner_set_bits(l, FORCED, index, bits) ==
    IF FORCED \/ inner_get_bits(l, index) = <<FALSE, FALSE, FALSE, FALSE>>
    THEN [list |-> [l EXCEPT !.bit_sets =
                       [i \in 1..4 |-> IF bits[i] THEN @[i] \cup {index}
                                                  ELSE @[i] \ {index}]],
          ret |-> TRUE]
    ELSE [list |-> l, ret |-> FALSE]

\* BitSetDeltaList::set that inserts the set bits of the value and leaves
\* the bits the slot already holds
BitSetDeltaList_set_or(l, FORCED, index, value) ==
    IF FORCED \/ inner_get_bits(l, index) = <<FALSE, FALSE, FALSE, FALSE>>
    THEN [list |-> [l EXCEPT !.bit_sets =
                       [i \in 1..4 |-> IF val2bits(value)[i]
                                       THEN @[i] \cup {index} ELSE @[i]]],
          ret |-> TRUE]
    ELSE [list |-> l, ret |-> FALSE]

BitSetDeltaList_set(l, FORCED, index, value) ==
    inner_set_bits(l, FORCED, index, val2bits(value))

BitSetDeltaList_get(l, index) == bits2val(inner_get_bits(l, index))

HashMapLazyDeltaList_new(len) ==
    [kind |-> "LazyHashMap", len |-> len, map |-> [k \in {} |-> 0],
     panicked |-> FALSE]

HashMapLazyDeltaList_set(l, FORCED, index, value) ==
    IF index \in DOMAIN l.map
    THEN IF ~FORCED
         THEN [list |-> l, ret |-> FALSE]
         ELSE [list |-> [l EXCEPT !.panicked = TRUE], ret |-> FALSE]
    ELSE [list |-> [l EXCEPT !.map =
                       [k \in DOMAIN @ \cup {index} |->
                            IF k = index THEN value ELSE @[k]]],
          ret |-> TRUE]

HashMapLazyDeltaList_get(l, index) ==
    IF index \in DOMAIN l.map THEN l.map[index] ELSE 0

AtomicBitSetDeltaList_new(len) ==
    [kind |-> "AtomicBitSet", len |-> len, visited |-> {},
     bits |-> [k \in 0..(len - 1) |-> 0], panicked |-> FALSE]

\* the visited bit read and then written by two operations: a caller that
\* reads before another caller's write sees the bit clear
fetch_or_visited_torn(l, index) ==
    [list |-> [l EXCEPT !.visited = @ \cup {index}], old |-> FALSE]

\* self.visited[vindex].fetch_or(1 << vbit): the new list and the old bit
fetch_or_visited(l, index) ==
    [list |-> [l EXCEPT !.visited = @ \cup {index}], old |-> index \in l.visited]

\* a fetch_or on bits that leaves the word as it is
fetch_or_bits_dropped(l, index, value) == l

\* self.bits[index].fetch_or((value as u64) << bit)
fetch_or_bits(l, index, value) ==
    [l EXCEPT !.bits[index] = BitOr4(@, value)]

AtomicBitSetDeltaList_set(l, FORCED, index, value) ==
    LET v == fetch_or_visited(l, index)
    IN  IF FORCED \/ ~v.old
        THEN [list |-> fetch_or_bits(v.list, index, value), ret |-> TRUE]
        ELSE [list |-> v.list, ret |-> FALSE]

AtomicBitSetDeltaList_get(l, index) == l.bits[index]

CompareAndSwapAtomicBitSetDeltaList_new(len) ==
    [kind |-> "CompareAndSwapAtomicBitSet", len |-> len,
     values |-> [k \in 0..(len - 1) |-> 0], panicked |-> FALSE]

CompareAndSwapAtomicBitSetDeltaList_set(l, FORCED, index, value) ==
    IF FORCED
    THEN [list |-> [l EXCEPT !.values[index] = value], ret |-> TRUE]
    ELSE IF l.values[index] = 0
         THEN [list |-> [l EXCEPT !.values[index] = value], ret |-> TRUE]
         ELSE [list |-> l, ret |-> FALSE]

CompareAndSwapAtomicBitSetDeltaList_get(l, index) == l.values[index]

\* the trait methods, dispatched on the concrete type
DeltaList_new(kind, len) ==
    CASE kind = "BitSet" -> BitSetDeltaList_new(len)
      [] kind = "LazyHashMap" -> HashMapLazyDeltaList_new(len)
      [] kind = "AtomicBitSet" -> AtomicBitSetDeltaList_new(len)
      [] kind = "CompareAndSwapAtomicBitSet" ->
             CompareAndSwapAtomicBitSetDeltaList_new(len)

DeltaList_set(l, FORCED, index, value) ==
    CASE l.kind = "BitSet" -> BitSetDeltaList_set(l, FORCED, index, value)
      [] l.kind = "LazyHashMap" ->
             HashMapLazyDeltaList_set(l, FORCED, index, value)
      [] l.kind = "AtomicBitSet" ->
             AtomicBitSetDeltaList_set(l, FORCED, index, value)
      [] l.kind = "CompareAndSwapAtomicBitSet" ->
             CompareAndSwapAtomicBitSetDeltaList_set(l, FORCED, index, value)

DeltaList_get(l, index) ==
    CASE l.kind = "BitSet" -> BitSetDeltaList_get(l, index)
      [] l.kind = "LazyHashMap" -> HashMapLazyDeltaList_get(l, index)
      [] l.kind = "AtomicBitSet" -> AtomicBitSetDeltaList_get(l, index)
      [] l.kind = "CompareAndSwapAtomicBitSet" ->
             CompareAndSwapAtomicBitSetDeltaList_get(l, index)

DeltaList_get_bits(l, index) == val2bits(DeltaList_get(l, index))

\* HashMapLazyDeltaList::into_bitset: every pair replayed with FORCED
RECURSIVE replay_into(_, _, _)
replay_into(list, map, keys) ==
    IF keys = {} THEN list
    ELSE LET k == CHOOSE x \in keys : \A y \in keys : x <= y
         IN  The({ replay_into(r.list, map, keys \ {k}) :
                   r \in { BitSetDeltaList_set(list, TRUE, k, map[k]) } })

\* a promotion that replays nothing
into_bitset_unreplayed(l, len) == BitSetDeltaList_new(len)

into_bitset(l, len) == replay_into(BitSetDeltaList_new(len), l.map, DOMAIN l.map)

\* usize is 8 bytes on the 64-bit targets the program is built for
SizeOfUsize == 8

is_bitset_conversion_worth(l, len) ==
    Cardinality(DOMAIN l.map) * (SizeOfUsize \div 2) >= len

(***************************************************************************)
(* The instruction kernel (bfs.rs, handle_single_4d_state).  acc carries   *)
(* the output vector and the delta list through the four branches.         *)
(***************************************************************************)
\* a closure that emits every candidate, won or not
handle_non_adjusted_unfiltered(acc, RESPECT_HOLES, maps, width, tiles_count, state, delta_i, non_adjusted) ==
    IF non_adjusted = state THEN acc
    ELSE
    LET h0 == IF RESPECT_HOLES
              THEN B2N(tile_index_with(non_adjusted[1], non_adjusted[2], width)
                          \notin maps[1].holes)
              ELSE 1
        h1 == IF RESPECT_HOLES
              THEN B2N(tile_index_with(non_adjusted[3], non_adjusted[4], width)
                          \notin maps[2].holes)
              ELSE 1
        adjusted == << non_adjusted[1] * h0, non_adjusted[2] * h0,
                       non_adjusted[3] * h1, non_adjusted[4] * h1 >>
        adjusted_i == calculate_visited_index(adjusted, width, tiles_count)
        first == DeltaList_set(acc.delta_list, FALSE, adjusted_i, delta_i)
    IN  [output |-> Append(acc.output, adjusted), delta_list |-> first.list]

\* a closure that writes the raw index whether its unforced set won or not
handle_non_adjusted_always_forced(acc, RESPECT_HOLES, maps, width, tiles_count, state, delta_i, non_adjusted) ==
    IF non_adjusted = state THEN acc
    ELSE
    LET h0 == IF RESPECT_HOLES
              THEN B2N(tile_index_with(non_adjusted[1], non_adjusted[2], width)
                          \notin maps[1].holes)
              ELSE 1
        h1 == IF RESPECT_HOLES
              THEN B2N(tile_index_with(non_adjusted[3], non_adjusted[4], width)
                          \notin maps[2].holes)
              ELSE 1
        adjusted == << non_adjusted[1] * h0, non_adjusted[2] * h0,
                       non_adjusted[3] * h1, non_adjusted[4] * h1 >>
        adjusted_i == calculate_visited_index(adjusted, width, tiles_count)
        first == DeltaList_set(acc.delta_list, FALSE, adjusted_i, delta_i)
        non_adjusted_i ==
            calculate_visited_index(non_adjusted, width, tiles_count)
        list2 == IF RESPECT_HOLES /\ non_adjusted_i # adjusted_i
                 THEN DeltaList_set(first.list, TRUE, non_adjusted_i,
                                    delta_i).list
                 ELSE first.list
    IN  [output |-> IF first.ret THEN Append(acc.output, adjusted)
                    ELSE acc.output,
         delta_list |-> list2]

\* a closure that never writes the raw index
handle_non_adjusted_raw_unwritten(acc, RESPECT_HOLES, maps, width, tiles_count, state, delta_i, non_adjusted) ==
    IF non_adjusted = state THEN acc
    ELSE
    LET h0 == IF RESPECT_HOLES
              THEN B2N(tile_index_with(non_adjusted[1], non_adjusted[2], width)
                          \notin maps[1].holes)
              ELSE 1
        h1 == IF RESPECT_HOLES
              THEN B2N(tile_index_with(non_adjusted[3], non_adjusted[4], width)
                          \notin maps[2].holes)
              ELSE 1
        adjusted == << non_adjusted[1] * h0, non_adjusted[2] * h0,
                       non_adjusted[3] * h1, non_adjusted[4] * h1 >>
        adjusted_i == calculate_visited_index(adjusted, width, tiles_count)
        first == DeltaList_set(acc.delta_list, FALSE, adjusted_i, delta_i)
    IN  IF first.ret
        THEN [output |-> Append(acc.output, adjusted), delta_list |-> first.list]
        ELSE [output |-> acc.output, delta_list |-> first.list]

handle_non_adjusted(acc, RESPECT_HOLES, maps, width, tiles_count, state, delta_i, non_adjusted) ==
    IF non_adjusted = state THEN acc
    ELSE
    LET h0 == IF RESPECT_HOLES
              THEN B2N(tile_index_with(non_adjusted[1], non_adjusted[2], width)
                          \notin maps[1].holes)
              ELSE 1
        h1 == IF RESPECT_HOLES
              THEN B2N(tile_index_with(non_adjusted[3], non_adjusted[4], width)
                          \notin maps[2].holes)
              ELSE 1
        adjusted == << non_adjusted[1] * h0, non_adjusted[2] * h0,
                       non_adjusted[3] * h1, non_adjusted[4] * h1 >>
        adjusted_i == calculate_visited_index(adjusted, width, tiles_count)
        first == DeltaList_set(acc.delta_list, FALSE, adjusted_i, delta_i)
    IN  IF first.ret
        THEN LET non_adjusted_i ==
                     calculate_visited_index(non_adjusted, width, tiles_count)
                 list2 ==
                     IF RESPECT_HOLES /\ non_adjusted_i # adjusted_i
                     THEN DeltaList_set(first.list, TRUE, non_adjusted_i,
                                        delta_i).list
                     ELSE first.list
             IN  [output |-> Append(acc.output, adjusted), delta_list |-> list2]
        ELSE [output |-> acc.output, delta_list |-> first.list]

\* the four candidate successors of a state, in the order the source handles
\* them: (x,-), (y,-), (x,+), (y,+); each is <<delta_i, non_adjusted>>.
\* state0end and state1end tell that a walker stands on the end tile.
branches_of(maps, state, state0end, state1end) ==
    LET i0h == horizontal_wall_index(maps[1], state[1], state[2])
        i0v == vertical_wall_index(maps[1], state[1], state[2])
        i1h == horizontal_wall_index(maps[2], state[3], state[4])
        i1v == vertical_wall_index(maps[2], state[3], state[4])
        left_wall_0 == B2N(~state0end /\ i0v \notin maps[1].vertical_walls)
        left_wall_1 == B2N(~state1end /\ i1v \notin maps[2].vertical_walls)
        right_wall_0 ==
            B2N(~state0end /\ (i0v + 1) \notin maps[1].vertical_walls)
        right_wall_1 ==
            B2N(~state1end /\ (i1v + 1) \notin maps[2].vertical_walls)
        top_wall_0 == B2N(~state0end /\ i0h \notin maps[1].horizontal_walls)
        top_wall_1 == B2N(~state1end /\ i1h \notin maps[2].horizontal_walls)
        bottom_wall_0 ==
            B2N(~state0end /\ (i0h + 1) \notin maps[1].horizontal_walls)
        bottom_wall_1 ==
            B2N(~state1end /\ (i1h + 1) \notin maps[2].horizontal_walls)
        \* d = 1 & r = -1
        delta_0 == <<left_wall_0, left_wall_1>>
        delta_0_i == delta_0[1] * 8 + delta_0[2] * 4 + 2 + 0
        non_adjusted_0 ==
            <<state[1] - delta_0[1], state[2], state[3] - delta_0[2], state[4]>>
        \* d = 2 & r = -1
        delta_1 == <<top_wall_0, top_wall_1>>
        delta_1_i == delta_1[1] * 8 + delta_1[2] * 4 + 0 + 0
        non_adjusted_1 ==
            <<state[1], state[2] - delta_1[1], state[3], state[4] - delta_1[2]>>
        \* d = 1 & r = +1
        delta_2 == <<right_wall_0, right_wall_1>>
        delta_2_i == delta_2[1] * 8 + delta_2[2] * 4 + 2
                        + Max(delta_2[1], delta_2[2])
        non_adjusted_2 ==
            <<state[1] + delta_2[1], state[2], state[3] + delta_2[2], state[4]>>
        \* d = 2 & r = +1
        delta_3 == <<bottom_wall_0, bottom_wall_1>>
        delta_3_i == delta_3[1] * 8 + delta_3[2] * 4 + 0
                        + Max(delta_3[1], delta_3[2])
        non_adjusted_3 ==
            <<state[1], state[2] + delta_3[1], state[3], state[4] + delta_3[2]>>
    IN  << <<delta_0_i, non_adjusted_0>>, <<delta_1_i, non_adjusted_1>>,
           <<delta_2_i, non_adjusted_2>>, <<delta_3_i, non_adjusted_3>> >>

\* the candidates with the two moved bits of every code left at 0
Branches_moved_unset(maps, width, height, state) ==
    LET b == branches_of(maps, state,
                         state[2] = height - 1 /\ state[1] = width - 1,
                         state[4] = height - 1 /\ state[3] = width - 1)
    IN  [n \in 1..4 |-> << b[n][1] % 4, b[n][2] >>]

\* the candidates computed as if the maps had no walls at all
Branches_unwalled(maps, width, height, state) ==
    branches_of([i \in 1..2 |->
                    [maps[i] EXCEPT !.vertical_walls = {},
                                    !.horizontal_walls = {}]],
                state,
                state[2] = height - 1 /\ state[1] = width - 1,
                state[4] = height - 1 /\ state[3] = width - 1)

\* the candidates computed without the end lock: a walker on the end tile
\* goes on moving
Branches_unlocked(maps, width, height, state) ==
    branches_of(maps, state, FALSE, FALSE)

\* the candidates with (y,+) handled before (x,+)
Branches_plus_swapped(maps, width, height, state) ==
    LET b == branches_of(maps, state,
                         state[2] = height - 1 /\ state[1] = width - 1,
                         state[4] = height - 1 /\ state[3] = width - 1)
    IN  << b[1], b[2], b[4], b[3] >>

\* the candidates with the direction bit of every code left at 0
Branches_dir_unset(maps, width, height, state) ==
    LET b == branches_of(maps, state,
                         state[2] = height - 1 /\ state[1] = width - 1,
                         state[4] = height - 1 /\ state[3] = width - 1)
    IN  [n \in 1..4 |-> << b[n][1] - (b[n][1] % 2), b[n][2] >>]

Branches(maps, width, height, state) ==
    branches_of(maps, state,
                state[2] = height - 1 /\ state[1] = width - 1,
                state[4] = height - 1 /\ state[3] = width - 1)

handle_single_4d_state(RESPECT_HOLES, maps, width, height, tiles_count, state, output, delta_list) ==
    The({ The({ The({ The({
        handle_non_adjusted(a3, RESPECT_HOLES, maps, width, tiles_count,
                            state, b[4][1], b[4][2]) :
      a3 \in { handle_non_adjusted(a2, RESPECT_HOLES, maps, width,
                                   tiles_count, state, b[3][1], b[3][2]) } }) :
      a2 \in { handle_non_adjusted(a1, RESPECT_HOLES, maps, width,
                                   tiles_count, state, b[2][1], b[2][2]) } }) :
      a1 \in { handle_non_adjusted(
                   [output |-> output, delta_list |-> delta_list],
                   RESPECT_HOLES, maps, width, tiles_count, state,
                   b[1][1], b[1][2]) } }) :
      b \in { Branches(maps, width, height, state) } })

\* a layer expanded by a kernel that takes no tile for a hole
RECURSIVE single_layer_bfs_holes_ignored(_, _, _, _, _, _, _, _)
single_layer_bfs_holes_ignored(RESPECT_HOLES, tasks, output, maps, width, height, tiles_count, delta_list) ==
    IF tasks = <<>> THEN [output |-> output, delta_list |-> delta_list]
    ELSE The({ single_layer_bfs_holes_ignored(RESPECT_HOLES, Tail(tasks),
                   r.output, maps, width, height, tiles_count, r.delta_list) :
               r \in { handle_single_4d_state(FALSE, maps, width,
                           height, tiles_count, Head(tasks), output,
                           delta_list) } })

\* single_layer_bfs: tasks.drain(..) through the kernel
RECURSIVE single_layer_bfs(_, _, _, _, _, _, _, _)
single_layer_bfs(RESPECT_HOLES, tasks, output, maps, width, height, tiles_count, delta_list) ==
    IF tasks = <<>> THEN [output |-> output, delta_list |-> delta_list]
    ELSE The({ single_layer_bfs(RESPECT_HOLES, Tail(tasks), r.output, maps,
                                width, height, tiles_count, r.delta_list) :
               r \in { handle_single_4d_state(RESPECT_HOLES, maps, width,
                           height, tiles_count, Head(tasks), output,
                           delta_list) } })

(***************************************************************************)
(* instructions.rs                                                         *)
(***************************************************************************)
ALL_INSTRUCTIONS ==
    << <<FALSE, FALSE>>, <<TRUE, FALSE>>, <<FALSE, TRUE>>, <<TRUE, TRUE>> >>

\* apply_instruction: the new position, whether the walker stepped off its
\* tile (it was neither locked on the end tile nor blocked by a wall), and the
\* returned flag (a hole was visited)
apply_instruction_unlocking(RESPECT_HOLES, instruction, map, pos, end_lock) ==
    IF ~end_lock /\ pos = <<map.width - 1, map.height - 1>>
    THEN [pos |-> pos, stepped |-> FALSE, locked |-> TRUE, ret |-> FALSE]
    ELSE
    LET x_dimension == instruction[1]
        direction == instruction[2]
        epsilon == IF direction THEN 1 ELSE 0
        blocked ==
            IF x_dimension
            THEN vertical_wall_index(map, pos[1] + epsilon, pos[2])
                    \in map.vertical_walls
            ELSE horizontal_wall_index(map, pos[1], pos[2] + epsilon)
                    \in map.horizontal_walls
        step == IF direction THEN 1 ELSE -1
        moved == IF blocked THEN pos
                 ELSE IF x_dimension THEN <<pos[1] + step, pos[2]>>
                      ELSE <<pos[1], pos[2] + step>>
    IN  IF RESPECT_HOLES /\ tile_index(map, moved[1], moved[2]) \in map.holes
        THEN [pos |-> <<0, 0>>, stepped |-> ~blocked, locked |-> FALSE,
              ret |-> TRUE]
        ELSE [pos |-> moved, stepped |-> ~blocked, locked |-> FALSE,
              ret |-> FALSE]

apply_instruction(RESPECT_HOLES, instruction, map, pos, end_lock) ==
    IF end_lock /\ pos = <<map.width - 1, map.height - 1>>
    THEN [pos |-> pos, stepped |-> FALSE, locked |-> TRUE, ret |-> FALSE]
    ELSE
    LET x_dimension == instruction[1]
        direction == instruction[2]
        epsilon == IF direction THEN 1 ELSE 0
        blocked ==
            IF x_dimension
            THEN vertical_wall_index(map, pos[1] + epsilon, pos[2])
                    \in map.vertical_walls
            ELSE horizontal_wall_index(map, pos[1], pos[2] + epsilon)
                    \in map.horizontal_walls
        step == IF direction THEN 1 ELSE -1
        moved == IF blocked THEN pos
                 ELSE IF x_dimension THEN <<pos[1] + step, pos[2]>>
                      ELSE <<pos[1], pos[2] + step>>
    IN  IF RESPECT_HOLES /\ tile_index(map, moved[1], moved[2]) \in map.holes
        THEN [pos |-> <<0, 0>>, stepped |-> ~blocked, locked |-> FALSE,
              ret |-> TRUE]
        ELSE [pos |-> moved, stepped |-> ~blocked, locked |-> FALSE,
              ret |-> FALSE]

RECURSIVE apply_instructions(_, _, _, _)
apply_instructions(RESPECT_HOLES, dirs, map, pos) ==
    IF dirs = <<>> THEN pos
    ELSE apply_instructions(RESPECT_HOLES, Tail(dirs), map,
             apply_instruction(RESPECT_HOLES, Head(dirs), map, pos, TRUE).pos)

maximum_instructions(maps) ==
    2 * maps[1].width * maps[1].height - 2
        - Len(maps[1].holes_placement) - Len(maps[2].holes_placement)

(***************************************************************************)
(* bfs_2d_distances (bfs.rs): the distance of every tile from start_state  *)
(* on one map, end lock off.  distances is a function on the tiles that    *)
(* were given a distance; a tile outside its domain still holds            *)
(* DEFAULT_VALUE (usize::MAX in the only caller).                          *)
(***************************************************************************)
\* the four instructions applied to one task, in the order of the source
\* one instruction applied to one task
distances_instruction(RESPECT_HOLES, map, width, task, k, dist, acc) ==
    LET a == apply_instruction(RESPECT_HOLES, ALL_INSTRUCTIONS[k], map, task,
                               FALSE)
        i == tile_index_with(a.pos[1], a.pos[2], width)
    IN  IF RESPECT_HOLES /\ a.ret THEN acc
        ELSE IF i \notin DOMAIN acc.distances
        THEN [distances |-> [t \in DOMAIN acc.distances \cup {i} |->
                                IF t = i THEN dist ELSE acc.distances[t]],
              output |-> Append(acc.output, a.pos)]
        ELSE acc

\* the four instructions applied to one task, in the order of the source
RECURSIVE distances_task(_, _, _, _, _, _, _)
distances_task(RESPECT_HOLES, map, width, task, k, dist, acc) ==
    IF k > 4 THEN acc
    ELSE The({ distances_task(RESPECT_HOLES, map, width, task, k + 1, dist,
                              r) :
               r \in { distances_instruction(RESPECT_HOLES, map, width, task,
                                             k, dist, acc) } })

RECURSIVE distances_layer(_, _, _, _, _, _)
distances_layer(RESPECT_HOLES, map, width, tasks, dist, acc) ==
    IF tasks = <<>> THEN acc
    ELSE The({ distances_layer(RESPECT_HOLES, map, width, Tail(tasks), dist,
                               r) :
               r \in { distances_task(RESPECT_HOLES, map, width, Head(tasks),
                                      1, dist, acc) } })

RECURSIVE distances_loop(_, _, _, _, _, _)
distances_loop(RESPECT_HOLES, map, width, tasks, dist, distances) ==
    The({ IF r.output = <<>>
          THEN [distances |-> r.distances, max_dist |-> dist - 1]
          ELSE distances_loop(RESPECT_HOLES, map, width, r.output, dist + 1,
                              r.distances) :
          r \in { distances_layer(RESPECT_HOLES, map, width, tasks, dist,
                      [distances |-> distances, output |-> <<>>]) } })

bfs_2d_distances(RESPECT_HOLES, start_state, width, map) ==
    distances_loop(RESPECT_HOLES, map, width, <<start_state>>, 1,
        [t \in {tile_index_with(start_state[1], start_state[2], width)} |-> 0])

(***************************************************************************)
(* The priority queues of A* (astar.rs).  heap is the BinaryHeap as the    *)
(* bag of the indices it holds; max tells whether its top is the largest   *)
(* (BinaryHeap<usize>) or the smallest index (BinaryHeap<Reverse<usize>>). *)
(* panicked records an index outside tasks or a pop from an empty bucket.  *)
(***************************************************************************)
Queues == {"Manhattan", "DisparityPunishableManhattan", "SingleBFS"}

GenericPriorityQueue_new(indices, max) ==
    [tasks |-> [i \in 1..indices |-> <<>>],
     heap |-> [i \in 0..(indices - 1) |-> 0],
     max |-> max,
     panicked |-> FALSE]

\* a peek that takes the least index whatever the ordering of the heap
heap_peek_least(q) ==
    LET held == {i \in DOMAIN q.heap : q.heap[i] > 0}
    IN  IF held = {} THEN -1
        ELSE CHOOSE i \in held : \A j \in held : i <= j

\* self.heap.peek(): the index on top of the heap, -1 for None
heap_peek(q) ==
    LET held == {i \in DOMAIN q.heap : q.heap[i] > 0}
    IN  IF held = {} THEN -1
        ELSE IF q.max THEN CHOOSE i \in held : \A j \in held : j <= i
        ELSE CHOOSE i \in held : \A j \in held : i <= j

GenericPriorityQueue_push(q, i, state) ==
    IF i \notin DOMAIN q.heap THEN [q EXCEPT !.panicked = TRUE]
    ELSE [q EXCEPT !.heap[i] = IF q.tasks[i + 1] = <<>> THEN @ + 1 ELSE @,
                   !.tasks[i + 1] = Append(@, state)]

\* the queue after the call and the returned task (<<>> for None)
GenericPriorityQueue_pop(q) ==
    LET i == heap_peek(q)
    IN  IF i = -1 THEN [queue |-> q, task |-> <<>>]
        ELSE IF q.tasks[i + 1] = <<>>
        THEN [queue |-> [q EXCEPT !.panicked = TRUE], task |-> <<>>]
        ELSE LET bucket == q.tasks[i + 1]
                 rest == SubSeq(bucket, 1, Len(bucket) - 1)
             IN  [queue |-> [q EXCEPT !.tasks[i + 1] = rest,
                                      !.heap[i] = IF rest = <<>> THEN @ - 1
                                                  ELSE @],
                  task |-> bucket[Len(bucket)]]

ManhattanDistancePriorityQueue_new(width, height) ==
    [type |-> "Manhattan"]
        @@ GenericPriorityQueue_new((width + height) * 2, TRUE)

ManhattanDistancePriorityQueue_push(q, state) ==
    GenericPriorityQueue_push(q, state[1] + state[2] + state[3] + state[4],
                              state)

DisparityPunishableManhattanDistancePriorityQueue_new(width, height) ==
    [type |-> "DisparityPunishableManhattan"]
        @@ GenericPriorityQueue_new((width + height) * 2, TRUE)

\* a push whose key grows with the disparity of the walkers
DisparityPunishableManhattanDistancePriorityQueue_push_rewarding(q, state) ==
    LET i1 == state[1] + state[2]
        i2 == state[3] + state[4]
    IN  GenericPriorityQueue_push(q, i1 + i2 + Max(i2, i1) - Min(i2, i1), state)

DisparityPunishableManhattanDistancePriorityQueue_push(q, state) ==
    LET i1 == state[1] + state[2]
        i2 == state[3] + state[4]
    IN  GenericPriorityQueue_push(q, i1 + i2 + Min(i2, i1) - Max(i2, i1), state)

\* a constructor that never returns None
SingleBFSDistancePriorityQueue_new_always(RESPECT_HOLES, width, height, maps) ==
    The({ [type |-> "SingleBFS", width |-> width,
           distances |-> <<d[1].distances, d[2].distances>>]
              @@ GenericPriorityQueue_new(d[1].max_dist + d[2].max_dist + 1,
                                          FALSE) :
          d \in { [i \in 1..2 |->
                     bfs_2d_distances(RESPECT_HOLES,
                         <<width - 1, height - 1>>, width, maps[i])] } })

\* None is the record of type "None"
SingleBFSDistancePriorityQueue_new(RESPECT_HOLES, width, height, maps) ==
    The({ IF 0 \notin DOMAIN d[1].distances \/ 0 \notin DOMAIN d[2].distances
          THEN [type |-> "None", panicked |-> FALSE]
          ELSE [type |-> "SingleBFS", width |-> width,
                distances |-> <<d[1].distances, d[2].distances>>]
                   @@ GenericPriorityQueue_new(
                          d[1].max_dist + d[2].max_dist + 1, FALSE) :
          d \in { [i \in 1..2 |->
                     bfs_2d_distances(RESPECT_HOLES,
                         <<width - 1, height - 1>>, width, maps[i])] } })

SingleBFSDistancePriorityQueue_push(q, state) ==
    LET t1 == tile_index_with(state[1], state[2], q.width)
        t2 == tile_index_with(state[3], state[4], q.width)
    IN  IF t1 \notin DOMAIN q.distances[1] \/ t2 \notin DOMAIN q.distances[2]
        THEN \* usize::MAX enters the sum: no bucket has that index
             [q EXCEPT !.panicked = TRUE]
        ELSE GenericPriorityQueue_push(q, q.distances[1][t1]
                                            + q.distances[2][t2], state)

\* the trait methods, dispatched on the concrete type
AStarPriorityQueue_new(type, RESPECT_HOLES, width, height, maps) ==
    CASE type = "Manhattan" -> ManhattanDistancePriorityQueue_new(width, height)
      [] type = "DisparityPunishableManhattan" ->
             DisparityPunishableManhattanDistancePriorityQueue_new(width, height)
      [] type = "SingleBFS" ->
             SingleBFSDistancePriorityQueue_new(RESPECT_HOLES, width, height,
                                                maps)

AStarPriorityQueue_push(q, state) ==
    CASE q.type = "Manhattan" -> ManhattanDistancePriorityQueue_push(q, state)
      [] q.type = "DisparityPunishableManhattan" ->
             DisparityPunishableManhattanDistancePriorityQueue_push(q, state)
      [] q.type = "SingleBFS" -> SingleBFSDistancePriorityQueue_push(q, state)

AStarPriorityQueue_pop(q) == GenericPriorityQueue_pop(q)

\* for new_state in output.drain(..) { queue.push(new_state) }
RECURSIVE push_all(_, _)
push_all(q, output) ==
    IF output = <<>> THEN q
    ELSE The({ push_all(r, Tail(output)) :
               r \in { AStarPriorityQueue_push(q, Head(output)) } })

(***************************************************************************)
(* The program state.                                                      *)
(***************************************************************************)
VARIABLES
    width, height, maps,   \* the input: grid extents and the two maps
    RESPECT_HOLES,         \* const generic of every driver
    strategy,              \* "bfs" (launch_bfs) or "astar" (launch_astar)
    Q,                     \* launch_astar: the AStarPriorityQueue type
    use_hash_map_first,    \* launch_astar: start on a HashMapLazyDeltaList
    kind,                  \* launch_bfs: the FourBitDeltaListKind
    threads,               \* launch_bfs: number of worker threads
    pc,                    \* position of the main thread
    list,                  \* the delta list
    tasks, output,         \* single_threaded_bfs: the two frontier vectors
    instructions_left,     \* remaining depth of the BFS drivers
    thread_tasks,          \* multi_threaded_bfs: one task vector per worker
    thread_outputs,        \* multi_threaded_bfs: one output vector per worker
    notifiers,             \* the run flag under each worker's mutex
    done,                  \* the shared shutdown flag
    wpc,                   \* position of each worker thread
    wbranch,               \* the branch each worker handles next (1..4)
    ci,                    \* index of the main thread's loop over notifiers
    queue,                 \* launch_astar: the priority queue
    calls,                 \* calls of DeltaList::set made on a list directly
    cb_state, dirs,        \* callback: current state, reversed directions
    instructions, moves    \* InstructionsOutputCallback fields

vars == << width, height, maps, RESPECT_HOLES, strategy, Q,
           use_hash_map_first, kind, threads, pc,
           list, tasks, output, instructions_left, thread_tasks,
           thread_outputs, notifiers, done, wpc, wbranch, ci, queue, calls,
           cb_state, dirs, instructions, moves >>

input_vars == << width, height, maps, RESPECT_HOLES, strategy, Q,
                 use_hash_map_first, kind, threads, calls >>
cb_vars == << cb_state, dirs, instructions, moves >>
st_vars == << tasks, output >>
mt_vars == << thread_tasks, thread_outputs, notifiers, done, wpc, wbranch, ci >>

tiles_count == width * height
states_count == tiles_count * tiles_count
end == calculate_visited_index(end_state(width, height), width, tiles_count)

\* the inner wall segments and the holes of a pair of maps
InnerWalls(map) ==
    Cardinality(map.vertical_walls) + Cardinality(map.horizontal_walls)
        - 2 * map.width - 2 * map.height
PairWalls(pair) == InnerWalls(pair[1]) + InnerWalls(pair[2])
PairHoles(pair) ==
    Len(pair[1].holes_placement) + Len(pair[2].holes_placement)

\* every pair of maps of the family
MapPairs(w, h) == MapsOfSize(w, h) \X MapsOfSize(w, h)

\* the pairs that stay within MaxWalls and MaxHoles in total
SmallMapPairs(w, h) ==
    { pair \in MapPairs(w, h) :
        PairWalls(pair) <= MaxWalls /\ PairHoles(pair) <= MaxHoles }

\* the small pairs without holes
HolelessMapPairs(w, h) ==
    { pair \in SmallMapPairs(w, h) : PairHoles(pair) = 0 }

\* The inputs: the sequential breadth-first search runs on every pair of
\* 2x2 maps, on the small pairs of 3x2 maps and on the small pairs of 3x3
\* maps without holes, A* on every pair of 2x2 maps, the multi-threaded
\* search on the small pairs of 2x2 maps.
InitInput ==
    \/ /\ strategy = "bfs"
       /\ kind \in SyncKinds
       /\ threads = 1
       /\ Q = "none"
       /\ use_hash_map_first = FALSE
       /\ \/ width = 2 /\ height = 2 /\ maps \in MapPairs(2, 2)
          \/ width = 3 /\ height = 2 /\ maps \in SmallMapPairs(3, 2)
          \/ width = 3 /\ height = 3 /\ maps \in HolelessMapPairs(3, 3)
    \/ /\ strategy = "bfs"
       /\ kind \in AsyncKinds
       /\ threads \in 1..MaxThreads
       /\ Q = "none"
       /\ use_hash_map_first = FALSE
       /\ width = 2 /\ height = 2 /\ maps \in SmallMapPairs(2, 2)
    \/ /\ strategy = "astar"
       /\ kind = "none"
       /\ threads = 1
       /\ Q \in Queues
       /\ use_hash_map_first \in BOOLEAN
       /\ width = 2 /\ height = 2 /\ maps \in MapPairs(2, 2)

InitIdle ==
    /\ pc = "launch"
    /\ tasks = <<>>
    /\ output = <<>>
    /\ instructions_left = 0
    /\ thread_tasks = <<>>
    /\ thread_outputs = <<>>
    /\ notifiers = <<>>
    /\ done = FALSE
    /\ wpc = <<>>
    /\ wbranch = <<>>
    /\ ci = 0
    /\ queue = [type |-> "none", panicked |-> FALSE]
    /\ cb_state = <<0, 0, 0, 0>>
    /\ dirs = <<>>
    /\ instructions = <<>>
    /\ moves = 0

Init ==
    /\ InitInput
    /\ RESPECT_HOLES \in BOOLEAN
    /\ list = [kind |-> "none", panicked |-> FALSE]
    /\ calls = <<>>
    /\ InitIdle

(***************************************************************************)
(* launch_bfs, bit_set_launch!: the list is created, the start is marked   *)
(* with the sentinel code and single_threaded_bfs sets up its vectors.     *)
(***************************************************************************)
LaunchSingleThreaded ==
    /\ pc = "launch"
    /\ strategy = "bfs"
    /\ kind \in SyncKinds
    /\ list' = DeltaList_set(DeltaList_new(kind, states_count), TRUE, 0, 1).list
    /\ tasks' = << <<0, 0, 0, 0>> >>
    /\ output' = <<>>
    /\ instructions_left' = maximum_instructions(maps)
    /\ pc' = "single_threaded_bfs"
    /\ UNCHANGED << input_vars, cb_vars, mt_vars, queue >>

\* one evaluation of the loop condition of single_threaded_bfs and, when it
\* holds, one pass through the loop body
SingleThreadedStep ==
    /\ pc = "single_threaded_bfs"
    /\ IF DeltaList_get(list, end) = 0
       THEN \E r \in { single_layer_bfs(RESPECT_HOLES, tasks, output, maps,
                                        width, height, tiles_count, list) } :
                /\ list' = r.delta_list
                \* std::mem::swap(&mut tasks, &mut output): tasks was drained
                /\ tasks' = r.output
                /\ output' = <<>>
                /\ IF r.delta_list.panicked
                   THEN /\ pc' = "panic"
                        /\ UNCHANGED instructions_left
                   ELSE IF r.output = <<>> \/ instructions_left = 0
                   THEN /\ pc' = "callback"
                        /\ UNCHANGED instructions_left
                   ELSE /\ pc' = "single_threaded_bfs"
                        /\ instructions_left' = instructions_left - 1
       ELSE /\ pc' = "callback"
            /\ UNCHANGED << list, tasks, output, instructions_left >>
    /\ cb_state' = IF pc' = "callback" THEN end_state(width, height)
                   ELSE cb_state
    /\ UNCHANGED << input_vars, mt_vars, queue, dirs, instructions, moves >>

(***************************************************************************)
(* InstructionsOutputCallback::callback (instructions.rs).                 *)
(***************************************************************************)
\* the hole disambiguation of one walker (i = 0 or 1): the first hole of
\* holes_placement whose raw state holds the same code is adopted
RECURSIVE adopt_hole(_, _, _, _, _)
adopt_hole(state, i, holes_placement, k, delta_i) ==
    IF k > Len(holes_placement) THEN state
    ELSE LET new_state == [state EXCEPT ![i * 2 + 1] = holes_placement[k][1],
                                        ![i * 2 + 2] = holes_placement[k][2]]
         IN  IF DeltaList_get_bits(list,
                    calculate_visited_index(new_state, width, tiles_count))
                  = delta_i
             THEN new_state
             ELSE adopt_hole(state, i, holes_placement, k + 1, delta_i)

\* a back-walk that never adopts a hole
disambiguate_skipped(state, i, delta_i) == state

disambiguate(state, i, delta_i) ==
    IF state[i * 2 + 1] = 0 /\ state[i * 2 + 2] = 0
    THEN adopt_hole(state, i, maps[i + 1].holes_placement, 1, delta_i)
    ELSE state

\* one pass through the while loop of callback
CallbackStep ==
    /\ pc = "callback"
    /\ cb_state # <<0, 0, 0, 0>>
    /\ IF ~InGrid(cb_state, width, height)
       THEN \* the index computed from the state is outside the list
            /\ pc' = "panic"
            /\ UNCHANGED cb_vars
       ELSE
       LET delta_i == DeltaList_get_bits(list,
                          calculate_visited_index(cb_state, width, tiles_count))
           r == IF delta_i[4] THEN 1 ELSE -1
           i1 == IF delta_i[3] THEN 1 ELSE 2
           i2 == IF delta_i[3] THEN 3 ELSE 4
           delta == [i \in 1..4 |->
                        IF (delta_i[1] /\ i = i1) \/ (delta_i[2] /\ i = i2)
                        THEN r ELSE 0]
           s1 == IF RESPECT_HOLES
                 THEN disambiguate(disambiguate(cb_state, 0, delta_i), 1, delta_i)
                 ELSE cb_state
       IN  IF delta_i = <<FALSE, FALSE, FALSE, FALSE>>
           THEN \* return: the fields keep what was accumulated so far
                /\ pc' = "done"
                /\ UNCHANGED cb_vars
           ELSE /\ moves' = moves + Cardinality({i \in 1..4 : delta[i] # 0})
                /\ cb_state' = [i \in 1..4 |-> s1[i] - delta[i]]
                /\ dirs' = Append(dirs, <<delta_i[3], delta_i[4]>>)
                /\ pc' = IF Len(dirs) >= states_count THEN "diverged"
                         ELSE "callback"
                /\ UNCHANGED instructions
    /\ UNCHANGED << input_vars, list, st_vars, instructions_left, mt_vars, queue >>

\* the loop has reached the start: the directions are reversed into
\* self.instructions (the simulation that follows only prints)
CallbackFinish ==
    /\ pc = "callback"
    /\ cb_state = <<0, 0, 0, 0>>
    /\ instructions' = instructions \o Reverse(dirs)
    /\ pc' = "done"
    /\ UNCHANGED << input_vars, list, st_vars, instructions_left, mt_vars,
                    queue, cb_state, dirs, moves >>

(***************************************************************************)
(* multi_threaded_bfs (bfs.rs).  Workers and slices are numbered 1..threads*)
(* here (0..threads in the source).                                        *)
(***************************************************************************)
Workers == 1..threads

\* the load balancing of the controller ("Der Bilanzierungsalgorithmus");
\* i and j are the 0-based loop variables of the source, j is shared by all
\* passes of the outer loop
RECURSIVE balance_while(_, _, _, _)
balance_while(slices, avg_len, i, j) ==
    IF j >= Len(slices) THEN [slices |-> slices, j |-> j]
    ELSE IF j = i THEN balance_while(slices, avg_len, i, j + 1)
    ELSE IF Len(slices[j + 1]) <= avg_len
         THEN balance_while(slices, avg_len, i, j + 1)
    ELSE LET input_i == slices[i + 1]
             input_j == slices[j + 1]
             l == Max(Len(input_j) - (avg_len - Len(input_i)), avg_len)
             moved == [slices EXCEPT
                         ![i + 1] = input_i \o SubSeq(input_j, l + 1, Len(input_j)),
                         ![j + 1] = SubSeq(input_j, 1, l)]
         IN  The({ IF Len(m[i + 1]) >= avg_len
                   THEN [slices |-> m, j |-> j]
                   ELSE balance_while(m, avg_len, i, j) : m \in {moved} })

RECURSIVE balance_for(_, _, _, _)
balance_for(slices, avg_len, i, j) ==
    IF i >= Len(slices) THEN slices
    ELSE IF Len(slices[i + 1]) >= avg_len
         THEN balance_for(slices, avg_len, i + 1, j)
    ELSE The({ balance_for(r.slices, avg_len, i + 1, r.j) :
               r \in { balance_while(slices, avg_len, i, j) } })

\* a rebalancing that cuts every slice down to the average length and drops
\* what it cut off
balance_dropping(slices, len) ==
    [i \in DOMAIN slices |->
        SubSeq(slices[i], 1, Min(Len(slices[i]), Max(len \div Len(slices), 1)))]

balance(slices, len) == balance_for(slices, len \div Len(slices), 0, 0)

RECURSIVE total_len(_)
total_len(slices) ==
    IF slices = <<>> THEN 0 ELSE Len(Head(slices)) + total_len(Tail(slices))

\* the position of a worker in its slice: the remaining tasks (the head is
\* the state being expanded) and the branch to handle next.  Branches whose
\* candidate equals the state return at once without touching shared data;
\* next_call skips them up to the next call of delta_list.set.
RECURSIVE next_call(_, _)
next_call(slice, b) ==
    IF slice = <<>> THEN [tasks |-> <<>>, b |-> 1]
    ELSE IF b > 4 THEN next_call(Tail(slice), 1)
    ELSE IF Branches(maps, width, height, Head(slice))[b][2] = Head(slice)
         THEN next_call(slice, b + 1)
    ELSE [tasks |-> slice, b |-> b]

LaunchMultiThreaded ==
    /\ pc = "launch"
    /\ strategy = "bfs"
    /\ kind \in AsyncKinds
    /\ list' = DeltaList_set(DeltaList_new(kind, states_count), TRUE, 0, 1).list
    /\ thread_tasks' = [i \in Workers |->
                           IF i = 1 THEN << <<0, 0, 0, 0>> >> ELSE <<>>]
    /\ thread_outputs' = [i \in Workers |-> <<>>]
    /\ notifiers' = [i \in Workers |-> FALSE]
    /\ done' = FALSE
    /\ wpc' = [i \in Workers |-> "wait"]
    /\ wbranch' = [i \in Workers |-> 1]
    /\ ci' = 1
    /\ instructions_left' = maximum_instructions(maps)
    /\ pc' = "mt_loop"
    /\ UNCHANGED << input_vars, st_vars, cb_vars, queue >>

\* while list.get(end) == 0; leaving the loop stores done
MTLoopHead ==
    /\ pc = "mt_loop"
    /\ IF DeltaList_get(list, end) = 0
       THEN pc' = "mt_notify" /\ UNCHANGED done
       ELSE pc' = "mt_notify_exit" /\ done' = TRUE
    /\ ci' = 1
    /\ UNCHANGED << input_vars, list, st_vars, instructions_left, thread_tasks,
                    thread_outputs, notifiers, wpc, wbranch, cb_vars, queue >>

\* notify_threads!: one pass of its loop
MTNotify ==
    /\ pc \in {"mt_notify", "mt_notify_exit"}
    /\ notifiers' = [notifiers EXCEPT ![ci] = TRUE]
    /\ IF ci < threads
       THEN ci' = ci + 1 /\ UNCHANGED << pc, cb_state >>
       ELSE /\ ci' = 1
            /\ pc' = IF pc = "mt_notify" THEN "mt_wait" ELSE "callback"
            /\ cb_state' = IF pc = "mt_notify" THEN cb_state
                           ELSE end_state(width, height)
    /\ UNCHANGED << input_vars, list, st_vars, instructions_left, thread_tasks,
                    thread_outputs, done, wpc, wbranch, queue, dirs,
                    instructions, moves >>

\* a controller whose wait returns without looking at the run flag
MTWait_impatient ==
    /\ pc = "mt_wait"
    /\ IF ci < threads
       THEN /\ ci' = ci + 1
            /\ UNCHANGED << pc, thread_tasks, thread_outputs,
                            instructions_left, done >>
       ELSE \E len \in { total_len(thread_outputs) } :
                /\ ci' = 1
                /\ thread_outputs' = thread_tasks
                /\ IF len = 0 \/ instructions_left = 0
                   THEN /\ thread_tasks' = thread_outputs
                        /\ pc' = "mt_notify_exit"
                        /\ done' = TRUE
                        /\ UNCHANGED instructions_left
                   ELSE /\ thread_tasks' = balance(thread_outputs, len)
                        /\ instructions_left' = instructions_left - 1
                        /\ pc' = "mt_loop"
                        /\ UNCHANGED done
    /\ UNCHANGED << input_vars, list, st_vars, notifiers, wpc, wbranch,
                    cb_vars, queue >>

\* the wait on one notifier returns once its run flag is false; after the
\* last one the slices are swapped, counted and, unless the loop breaks,
\* balanced
MTWait ==
    /\ pc = "mt_wait"
    /\ ~notifiers[ci]
    /\ IF ci < threads
       THEN /\ ci' = ci + 1
            /\ UNCHANGED << pc, thread_tasks, thread_outputs,
                            instructions_left, done >>
       ELSE \E len \in { total_len(thread_outputs) } :
                /\ ci' = 1
                /\ thread_outputs' = thread_tasks
                /\ IF len = 0 \/ instructions_left = 0
                   THEN /\ thread_tasks' = thread_outputs
                        /\ pc' = "mt_notify_exit"
                        /\ done' = TRUE
                        /\ UNCHANGED instructions_left
                   ELSE /\ thread_tasks' = balance(thread_outputs, len)
                        /\ instructions_left' = instructions_left - 1
                        /\ pc' = "mt_loop"
                        /\ UNCHANGED done
    /\ UNCHANGED << input_vars, list, st_vars, notifiers, wpc, wbranch,
                    cb_vars, queue >>

\* a wait that returns whatever the run flag holds
WorkerWake_unsignalled(i) ==
    /\ wpc[i] = "wait"
    /\ wpc' = [wpc EXCEPT ![i] = "check_done"]
    /\ UNCHANGED << input_vars, pc, list, st_vars, instructions_left,
                    thread_tasks, thread_outputs, notifiers, done, wbranch,
                    ci, cb_vars, queue >>

\* the worker's wait_while returns: its run flag is set
WorkerWake(i) ==
    /\ wpc[i] = "wait"
    /\ notifiers[i]
    /\ wpc' = [wpc EXCEPT ![i] = "check_done"]
    /\ UNCHANGED << input_vars, pc, list, st_vars, instructions_left,
                    thread_tasks, thread_outputs, notifiers, done, wbranch,
                    ci, cb_vars, queue >>

\* a worker that does not look at done
WorkerCheckDone_ignored(i) ==
    /\ wpc[i] = "check_done"
    /\ \E p \in { next_call(thread_tasks[i], 1) } :
          /\ wpc' = [wpc EXCEPT ![i] = "run"]
          /\ thread_tasks' = [thread_tasks EXCEPT ![i] = p.tasks]
          /\ wbranch' = [wbranch EXCEPT ![i] = p.b]
    /\ UNCHANGED << input_vars, pc, list, st_vars, instructions_left,
                    thread_outputs, notifiers, done, ci, cb_vars, queue >>

\* if done.load(..) { break }
WorkerCheckDone(i) ==
    /\ wpc[i] = "check_done"
    /\ IF done
       THEN /\ wpc' = [wpc EXCEPT ![i] = "exited"]
            /\ UNCHANGED << thread_tasks, wbranch >>
       ELSE \E p \in { next_call(thread_tasks[i], 1) } :
                /\ wpc' = [wpc EXCEPT ![i] = "run"]
                /\ thread_tasks' = [thread_tasks EXCEPT ![i] = p.tasks]
                /\ wbranch' = [wbranch EXCEPT ![i] = p.b]
    /\ UNCHANGED << input_vars, pc, list, st_vars, instructions_left,
                    thread_outputs, notifiers, done, ci, cb_vars, queue >>

\* one call of handle_non_adjusted that reaches delta_list.set
WorkerCall(i) ==
    /\ wpc[i] = "run"
    /\ thread_tasks[i] # <<>>
    /\ \E br \in {Branches(maps, width, height,
                            Head(thread_tasks[i]))[wbranch[i]]} :
       \E r \in {handle_non_adjusted(
                    [output |-> thread_outputs[i], delta_list |-> list],
                    RESPECT_HOLES, maps, width, tiles_count,
                    Head(thread_tasks[i]), br[1], br[2])} :
       \E p \in {next_call(thread_tasks[i], wbranch[i] + 1)} :
           /\ list' = r.delta_list
           /\ thread_outputs' = [thread_outputs EXCEPT ![i] = r.output]
           /\ thread_tasks' = [thread_tasks EXCEPT ![i] = p.tasks]
           /\ wbranch' = [wbranch EXCEPT ![i] = p.b]
    /\ UNCHANGED << input_vars, pc, st_vars, instructions_left, notifiers,
                    done, wpc, ci, cb_vars, queue >>

\* a worker that goes back to waiting without clearing its run flag
WorkerFinish_keeps_flag(i) ==
    /\ wpc[i] = "run"
    /\ thread_tasks[i] = <<>>
    /\ wpc' = [wpc EXCEPT ![i] = "wait"]
    /\ UNCHANGED << input_vars, pc, list, st_vars, instructions_left,
                    thread_tasks, thread_outputs, notifiers, done, wbranch,
                    ci, cb_vars, queue >>

\* the slice is drained: the worker clears its run flag and waits again
WorkerFinish(i) ==
    /\ wpc[i] = "run"
    /\ thread_tasks[i] = <<>>
    /\ notifiers' = [notifiers EXCEPT ![i] = FALSE]
    /\ wpc' = [wpc EXCEPT ![i] = "wait"]
    /\ UNCHANGED << input_vars, pc, list, st_vars, instructions_left,
                    thread_tasks, thread_outputs, done, wbranch, ci, cb_vars,
                    queue >>

Worker(i) ==
    \/ WorkerWake(i)
    \/ WorkerCheckDone(i)
    \/ WorkerCall(i)
    \/ WorkerFinish(i)

(***************************************************************************)
(* launch_astar (astar.rs).                                                *)
(***************************************************************************)
\* Q::new, the push of the start and the choice of the first delta list
LaunchAStar ==
    /\ pc = "launch"
    /\ strategy = "astar"
    /\ \E q \in { AStarPriorityQueue_new(Q, RESPECT_HOLES, width, height,
                                         maps) } :
           IF q.type = "None"
           THEN \* the callback is never called
                /\ queue' = q
                /\ pc' = "done"
                /\ UNCHANGED list
           ELSE /\ queue' = AStarPriorityQueue_push(q, <<0, 0, 0, 0>>)
                /\ list' = IF use_hash_map_first
                           THEN HashMapLazyDeltaList_new(states_count)
                           ELSE BitSetDeltaList_new(states_count)
                /\ pc' = IF queue'.panicked THEN "panic"
                         ELSE IF use_hash_map_first THEN "astar_hash_map"
                         ELSE "astar_bit_set"
    /\ UNCHANGED << input_vars, st_vars, instructions_left, mt_vars, cb_vars >>

\* one pass through search! in either loop; in the first loop the pass ends
\* with the conversion test and, when it says so, the conversion
AStarSearch ==
    /\ pc \in {"astar_hash_map", "astar_bit_set"}
    /\ \E p \in { AStarPriorityQueue_pop(queue) } :
           IF p.task = <<>>
           THEN \* break false; report!
                /\ queue' = p.queue
                /\ pc' = IF p.queue.panicked THEN "panic" ELSE "callback"
                /\ UNCHANGED << list, output >>
           ELSE
           \E r \in { handle_single_4d_state(RESPECT_HOLES, maps, width,
                          height, tiles_count, p.task, output, list) } :
               IF r.delta_list.panicked
               THEN /\ list' = r.delta_list
                    /\ output' = r.output
                    /\ queue' = p.queue
                    /\ pc' = "panic"
               ELSE IF DeltaList_get(r.delta_list, end) # 0
               THEN \* break false; report!
                    /\ list' = r.delta_list
                    /\ output' = r.output
                    /\ queue' = p.queue
                    /\ pc' = "callback"
               ELSE /\ queue' = push_all(p.queue, r.output)
                    /\ output' = <<>>
                    /\ IF queue'.panicked
                       THEN list' = r.delta_list /\ pc' = "panic"
                       ELSE IF pc = "astar_hash_map"
                               /\ is_bitset_conversion_worth(r.delta_list,
                                                             states_count)
                       THEN /\ list' = into_bitset(r.delta_list, states_count)
                            /\ pc' = "astar_bit_set"
                       ELSE /\ list' = r.delta_list
                            /\ UNCHANGED pc
    /\ cb_state' = IF pc' = "callback" THEN end_state(width, height)
                   ELSE cb_state
    /\ UNCHANGED << input_vars, tasks, instructions_left, mt_vars, dirs,
                    instructions, moves >>

Next ==
    \/ LaunchSingleThreaded
    \/ SingleThreadedStep
    \/ LaunchMultiThreaded
    \/ MTLoopHead
    \/ MTNotify
    \/ MTWait
    \/ \E i \in DOMAIN wpc : Worker(i)
    \/ LaunchAStar
    \/ AStarSearch
    \/ CallbackStep
    \/ CallbackFinish

Spec == Init /\ [][Next]_vars

(***************************************************************************)
(* Scheduling: the main thread and every worker thread that can take a     *)
(* step eventually takes one.                                              *)
(***************************************************************************)
MainThread ==
    \/ LaunchSingleThreaded
    \/ SingleThreadedStep
    \/ LaunchMultiThreaded
    \/ MTLoopHead
    \/ MTNotify
    \/ MTWait
    \/ LaunchAStar
    \/ AStarSearch
    \/ CallbackStep
    \/ CallbackFinish

WorkerThread(i) == i \in DOMAIN wpc /\ Worker(i)

FairSpec ==
    /\ Init
    /\ [][Next]_vars
    /\ WF_vars(MainThread)
    /\ \A i \in 1..MaxThreads : WF_vars(WorkerThread(i))

(***************************************************************************)
(* The joint state graph, defined from the simulation (apply_instruction   *)
(* with end_lock): walls block a walker, a walker on the end tile stays,   *)
(* a hole sends a walker to (0,0) when RESPECT_HOLES is on.                *)
(***************************************************************************)
JointStep(rh, ms, s, instruction) ==
    LET a == apply_instruction(rh, instruction, ms[1], <<s[1], s[2]>>, TRUE)
        b == apply_instruction(rh, instruction, ms[2], <<s[3], s[4]>>, TRUE)
    IN  <<a.pos[1], a.pos[2], b.pos[1], b.pos[2]>>

JointSuccessors(rh, ms, S) ==
    { JointStep(rh, ms, s, ALL_INSTRUCTIONS[k]) : s \in S, k \in 1..4 }

\* length of a shortest path from the frontier to goal, -1 if there is none
RECURSIVE GraphDistance(_, _, _, _, _, _)
GraphDistance(rh, ms, goal, frontier, seen, d) ==
    IF goal \in frontier THEN d
    ELSE IF frontier = {} THEN -1
    ELSE LET next == JointSuccessors(rh, ms, frontier) \ seen
         IN  GraphDistance(rh, ms, goal, next, seen \cup next, d + 1)

ShortestLength ==
    GraphDistance(RESPECT_HOLES, maps, end_state(width, height),
                  { <<0, 0, 0, 0>> }, { <<0, 0, 0, 0>> }, 0)

(***************************************************************************)
(* Claims about the drivers (checked under Spec and FairSpec).             *)
(***************************************************************************)
Goal == <<width - 1, height - 1>>
GoalIndex ==
    calculate_visited_index(<<width - 1, height - 1, width - 1, height - 1>>,
                            width, tiles_count)

\* the run has ended with a result
Finished == pc = "done"

\* C1 as stated: whenever the goal state is reachable in the joint graph,
\* launch_bfs (sequential or multi-threaded, every backend, holes respected
\* or not) returns a non-empty sequence whose length is the length of a
\* shortest path.
C1_AsStated ==
    (Finished /\ strategy = "bfs" /\ ShortestLength >= 0)
        => /\ instructions # <<>>
           /\ Len(instructions) = ShortestLength

\* a breadth-first run has ended empty-handed although the goal is reachable
C1_Witness ==
    /\ Finished /\ strategy = "bfs"
    /\ ShortestLength > 0
    /\ instructions = <<>>

\* C2: every non-empty sequence the callback produces after launch_bfs or
\* launch_astar takes both walkers, each simulated alone on its map from
\* (0,0), to the tile (W-1,H-1).
C2_SequenceReachesGoal ==
    (Finished /\ instructions # <<>>)
        => /\ apply_instructions(RESPECT_HOLES, instructions, maps[1],
                                 <<0, 0>>) = Goal
           /\ apply_instructions(RESPECT_HOLES, instructions, maps[2],
                                 <<0, 0>>) = Goal

\* the walkers of a simulated sequence that fall into a hole
RECURSIVE count_falls(_, _, _, _)
count_falls(rh, dirs_, map, pos) ==
    IF dirs_ = <<>> THEN 0
    ELSE LET a == apply_instruction(rh, Head(dirs_), map, pos, TRUE)
         IN  B2N(a.ret) + count_falls(rh, Tail(dirs_), map, a.pos)

\* A* has returned a sequence on which a walker falls into a hole
C2_Witness ==
    /\ Finished /\ strategy = "astar" /\ RESPECT_HOLES
    /\ instructions # <<>>
    /\ count_falls(TRUE, instructions, maps[1], <<0, 0>>)
          + count_falls(TRUE, instructions, maps[2], <<0, 0>>) > 0

\* the length launch_bfs returns as a function of the input alone: the
\* length of a shortest path if the layers the depth counter allows reach
\* it, and 0 otherwise
BfsLength ==
    IF ShortestLength \in 1..(maximum_instructions(maps) + 1)
    THEN ShortestLength ELSE 0

\* C3: for one pair of maps and one setting of RESPECT_HOLES the length of
\* the sequence launch_bfs returns is the same for every backend, every
\* number of workers and every interleaving of the workers.
C3_LengthIndependentOfRun ==
    (Finished /\ strategy = "bfs") => Len(instructions) = BfsLength

\* a run of two workers on an atomic list has returned a sequence of at
\* least three instructions
C3_Witness ==
    /\ Finished /\ strategy = "bfs"
    /\ threads = 2 /\ kind = "AtomicBitSet"
    /\ Len(instructions) >= 3

\* C7 as stated: every non-empty sequence returned after launch_bfs is at
\* most maximum_instructions(maps) long, holes respected or not.
C7_AsStated ==
    (Finished /\ strategy = "bfs" /\ instructions # <<>>)
        => Len(instructions) <= maximum_instructions(maps)

\* launch_bfs has returned a sequence longer than maximum_instructions
C7_Witness ==
    /\ Finished /\ strategy = "bfs"
    /\ Len(instructions) = maximum_instructions(maps) + 1

\* the simulation of a sequence on one map: the instructions on which the
\* walker stepped off its tile, those on which a wall blocked it and those
\* on which it stood frozen on the end tile
RECURSIVE count_moves(_, _, _, _)
count_moves(rh, dirs_, map, pos) ==
    IF dirs_ = <<>> THEN [stepped |-> 0, blocked |-> 0, locked |-> 0]
    ELSE LET a == apply_instruction(rh, Head(dirs_), map, pos, TRUE)
             r == count_moves(rh, Tail(dirs_), map, a.pos)
         IN  [stepped |-> r.stepped + B2N(a.stepped),
              blocked |-> r.blocked + B2N(~a.stepped /\ ~a.locked),
              locked |-> r.locked + B2N(a.locked)]

Walk(i) == count_moves(RESPECT_HOLES, instructions, maps[i], <<0, 0>>)

\* C8 as stated: for every returned solution moves is the number of
\* (instruction, walker) pairs in which the walker left its tile in the
\* simulation, moves <= 2 * |instructions|, and moves = 2 * |instructions|
\* iff no wall blocked a walker on any instruction.
C8_AsStated ==
    (Finished /\ instructions # <<>>)
        => /\ moves = Walk(1).stepped + Walk(2).stepped
           /\ moves <= 2 * Len(instructions)
           /\ moves = 2 * Len(instructions)
                 <=> Walk(1).blocked + Walk(2).blocked = 0

\* C8, amended: moves is that number, moves <= 2 * |instructions|, and
\* moves = 2 * |instructions| iff no wall blocked a walker and no walker
\* stood frozen on the end tile on any instruction.
C8_MovesCountSteps ==
    (Finished /\ instructions # <<>>)
        => /\ moves = Walk(1).stepped + Walk(2).stepped
           /\ moves <= 2 * Len(instructions)
           /\ moves = 2 * Len(instructions)
                 <=> /\ Walk(1).blocked + Walk(2).blocked = 0
                     /\ Walk(1).locked + Walk(2).locked = 0

\* a solution on which no wall blocks a walker and one walker waits on the
\* end tile for the other
C8_Witness ==
    /\ Finished /\ instructions # <<>>
    /\ Walk(1).blocked + Walk(2).blocked = 0
    /\ Walk(1).locked + Walk(2).locked > 0
    /\ moves < 2 * Len(instructions)

\* the search loop of the driver has been left
SearchEnded == pc \in {"mt_notify_exit", "callback", "done"}

\* C9: every run of single_threaded_bfs, of multi_threaded_bfs under fair
\* scheduling and of launch_astar leaves its search loop.
C9_SearchTerminates == <>SearchEnded

\* the multi-threaded search has left its loop after at least two layers
C9_Witness ==
    /\ pc = "mt_notify_exit"
    /\ threads = 2
    /\ instructions_left + 2 <= maximum_instructions(maps)

\* the slot of the goal state holds no code (or no list was created)
GoalUnvisited == list.kind = "none" \/ DeltaList_get(list, GoalIndex) = 0

\* C10: a run that ends with the goal state unvisited returns the empty
\* sequence and moves = 0.
C10_UnvisitedGoalGivesEmptyResult ==
    (Finished /\ GoalUnvisited) => (instructions = <<>> /\ moves = 0)

\* A* has emptied its queue without visiting the goal
C10_Witness ==
    /\ Finished /\ strategy = "astar"
    /\ list.kind # "none" /\ GoalUnvisited
    /\ \A i \in DOMAIN queue.heap : queue.heap[i] = 0
    /\ instructions = <<>> /\ moves = 0

(***************************************************************************)
(* Claims about launch_astar (checked under Spec).                         *)
(***************************************************************************)
\* the tiles one walker reaches from the frontier in the simulation
RECURSIVE WalkerReach(_, _, _, _)
WalkerReach(rh, map, frontier, seen) ==
    IF frontier = {} THEN seen
    ELSE LET next == { apply_instruction(rh, ALL_INSTRUCTIONS[k], map, p,
                                         TRUE).pos :
                          p \in frontier, k \in 1..4 } \ seen
         IN  WalkerReach(rh, map, next, seen \cup next)

\* on one of the maps the walker cannot get from (0,0) to the end tile
StartCutOff ==
    \E i \in 1..2 :
        Goal \notin WalkerReach(RESPECT_HOLES, maps[i], { <<0, 0>> },
                                { <<0, 0>> })

\* C11: with SingleBFSDistancePriorityQueue, if on either map (0,0) has no
\* finite distance to the end tile, launch_astar never creates or writes a
\* list, never expands a state, and the result stays the empty sequence with
\* moves = 0.
C11_NoSearchWhenStartCutOff ==
    (strategy = "astar" /\ Q = "SingleBFS" /\ StartCutOff)
        => /\ pc \in {"launch", "done"}
           /\ list.kind = "none"
           /\ output = <<>>
           /\ instructions = <<>> /\ moves = 0

\* launch_astar has returned after Q::new gave None
C11_Witness ==
    /\ strategy = "astar" /\ Q = "SingleBFS" /\ StartCutOff
    /\ pc = "done" /\ queue.type = "None"

\* C12 as stated: whenever a solution exists, launch_astar with any of the
\* three queues returns a sequence whose length is the length of a shortest
\* path of the joint state graph.
C12_AsStated ==
    (Finished /\ strategy = "astar" /\ ShortestLength >= 0)
        => Len(instructions) = ShortestLength

\* launch_astar has returned a sequence longer than a shortest path
C12_Witness ==
    /\ Finished /\ strategy = "astar"
    /\ ShortestLength > 0
    /\ Len(instructions) > ShortestLength

(***************************************************************************)
(* Claims about multi_threaded_bfs (checked under Spec and FairSpec).      *)
(***************************************************************************)
\* worker i is parked: it waits for its go signal, which is not set
Parked(i) == wpc[i] = "wait" /\ ~notifiers[i]

\* worker i is between its go signal and the clearing of its run flag
Awake(i) == wpc[i] \in {"check_done", "run"}

\* the step is the controller's swap of the slices (with or without the
\* rebalancing that follows it)
ControllerSwaps == pc = "mt_wait" /\ pc' # "mt_wait"

\* the step changes the task or the output vector of worker i
Touches(i) ==
    \/ thread_tasks'[i] # thread_tasks[i]
    \/ thread_outputs'[i] # thread_outputs[i]

\* C14: the controller swaps and rebalances the slices only while every
\* worker is parked, and every other step that changes a task or output
\* vector is a step of the one worker that owns it, taken while that worker
\* holds its go signal.
C14_SlicesExclusive ==
    [][ /\ ControllerSwaps => \A i \in DOMAIN wpc : Parked(i)
        /\ (pc # "launch" /\ ~ControllerSwaps) =>
              \A i \in DOMAIN wpc :
                  Touches(i) =>
                      /\ Awake(i) /\ notifiers[i]
                      /\ wpc' = wpc \/ wpc'[i] # wpc[i]
                      /\ \A j \in DOMAIN wpc \ {i} : ~Touches(j) ]_vars

\* the controller is about to swap the slices of two workers that both
\* produced output in this layer
C14_Witness ==
    /\ pc = "mt_wait" /\ threads = 2 /\ ci = 2
    /\ \A i \in DOMAIN wpc : Parked(i)
    /\ thread_outputs[1] # <<>> /\ thread_outputs[2] # <<>>

\* every worker thread has left its loop
AllExited == \A i \in DOMAIN wpc : wpc[i] = "exited"

\* C15: once the controller has left its loop and set done, no worker
\* expands a slice any more, and under fair scheduling every worker
\* eventually sees done and leaves its loop.
C15_WorkersShutDown ==
    /\ [](done => \A i \in DOMAIN wpc : wpc[i] # "run")
    /\ (done ~> AllExited)

\* two workers have left their loops after a search of several layers
C15_Witness ==
    /\ done /\ threads = 2 /\ AllExited
    /\ instructions_left + 2 <= maximum_instructions(maps)


(***************************************************************************)
(* Claims about the output of launch_bfs on given mazes (checked under     *)
(* Spec).                                                                  *)
(***************************************************************************)
\* both maps have no inner wall
NoInnerWalls == PairWalls(maps) = 0

\* the instructions (x,+) and (y,+)
XPlus == <<TRUE, TRUE>>
YPlus == <<FALSE, TRUE>>

\* the input: two 3x3 maps without inner walls and holes, searched by
\* single_threaded_bfs
Open3x3 ==
    /\ strategy = "bfs" /\ threads = 1
    /\ width = 3 /\ height = 3
    /\ NoInnerWalls /\ PairHoles(maps) = 0

\* C19: on two 3x3 maps without inner walls and holes the single-threaded
\* search and the reconstruction return (x,+)(x,+)(y,+)(y,+) with moves = 8.
C19_Open3x3Output ==
    (Finished /\ Open3x3)
        => /\ instructions = <<XPlus, XPlus, YPlus, YPlus>>
           /\ moves = 8

\* the search on the open 3x3 maps has returned a sequence of four
\* instructions
C19_Witness ==
    /\ Finished /\ Open3x3
    /\ Len(instructions) = 4

\* the input: 2x2 maps without inner walls, map 0 with the one hole (1,0),
\* map 1 without holes, holes respected, searched by launch_bfs
HoleAt10 ==
    /\ strategy = "bfs" /\ RESPECT_HOLES
    /\ width = 2 /\ height = 2
    /\ NoInnerWalls
    /\ maps[1].holes_placement = << <<1, 0>> >>
    /\ maps[2].holes_placement = <<>>

\* the tiles a walker stands on while the sequence is simulated, a fall
\* into a hole included
RECURSIVE stood_on(_, _, _, _)
stood_on(rh, dirs_, map, pos) ==
    IF dirs_ = <<>> THEN {pos}
    ELSE LET raw == apply_instruction(FALSE, Head(dirs_), map, pos, TRUE)
             a == apply_instruction(rh, Head(dirs_), map, pos, TRUE)
         IN  {pos, raw.pos} \cup stood_on(rh, Tail(dirs_), map, a.pos)

\* C20: on that input launch_bfs and the reconstruction return (y,+)(x,+)
\* with moves = 4, and walker 0 never stands on (1,0) in the simulation.
C20_HoleAvoided ==
    (Finished /\ HoleAt10)
        => /\ instructions = <<YPlus, XPlus>>
           /\ moves = 4
           /\ <<1, 0>> \notin stood_on(TRUE, instructions, maps[1], <<0, 0>>)

\* the multi-threaded search has returned two instructions on that input
C20_Witness ==
    /\ Finished /\ HoleAt10
    /\ threads = MaxThreads
    /\ Len(instructions) = 2

(***************************************************************************)
(* Claims about the start sentinel and the depth bound (checked under      *)
(* Spec).                                                                  *)
(***************************************************************************)
\* the driver has created its delta list
ListCreated == list.kind # "none"

\* C21: in every driver (launch_bfs with each backend, launch_astar) the
\* slot of the start state holds 0001 from before the first expansion to the
\* end of the search, so the start is never written by an unforced set.
C21_AsStated ==
    (ListCreated /\ ~list.panicked) => DeltaList_get(list, 0) = 1

\* launch_astar searches on a list whose start slot holds the code an
\* expansion wrote there
C21_Witness ==
    /\ strategy = "astar" /\ ListCreated /\ ~list.panicked
    /\ DeltaList_get(list, 0) \notin {0, 1}

(***************************************************************************)
(* Claims about the frontiers of multi_threaded_bfs (checked under Spec).  *)
(***************************************************************************)
\* the index of a state in the list of the run
idx(state) == calculate_visited_index(state, width, tiles_count)

\* the state a raw state stands for when holes are respected: a walker on a
\* hole of its map stands on (0,0)
Adjusted(raw) ==
    LET h0 == B2N(tile_index_with(raw[1], raw[2], width) \notin maps[1].holes)
        h1 == B2N(tile_index_with(raw[3], raw[4], width) \notin maps[2].holes)
    IN  << raw[1] * h0, raw[2] * h0, raw[3] * h1, raw[4] * h1 >>

\* the vectors of a sequence of vectors, one after the other
RECURSIVE Flatten(_)
Flatten(vs) == IF vs = <<>> THEN <<>> ELSE Head(vs) \o Flatten(Tail(vs))

\* no state stands in two places of the task and output vectors
NoStateTwice ==
    \E all \in { Flatten(thread_tasks) \o Flatten(thread_outputs) } :
        \A a, b \in 1..Len(all) : a # b => all[a] # all[b]

\* the step appends to the output vector of worker i
Pushes(i) ==
    /\ i \in DOMAIN thread_outputs'
    /\ Len(thread_outputs'[i]) > Len(thread_outputs[i])

\* C22: in a multi-threaded run each joint state is placed into a frontier
\* at most once: no state stands twice in the task and output vectors, a
\* state is appended to an output vector only in the step that takes its
\* slot from unvisited to visited, and a visited slot stays visited.
C22_PlacedOnce ==
    /\ [](wpc # <<>> => NoStateTwice)
    /\ [][ wpc # <<>> =>
            /\ \A i \in DOMAIN wpc :
                  Pushes(i) =>
                     \E n \in { thread_outputs'[i][Len(thread_outputs'[i])] } :
                        /\ Len(thread_outputs'[i]) = Len(thread_outputs[i]) + 1
                        /\ DeltaList_get(list, idx(n)) = 0
                        /\ DeltaList_get(list', idx(n)) # 0
            /\ \A k \in 0..(states_count - 1) :
                  DeltaList_get(list, k) # 0 => DeltaList_get(list', k) # 0
          ]_vars

\* two workers have each appended a state to their output in one layer
C22_Witness ==
    /\ threads = 2 /\ pc = "mt_wait"
    /\ thread_outputs[1] # <<>> /\ thread_outputs[2] # <<>>
    /\ wpc[1] = "run" /\ wpc[2] = "run"

\* the controller is about to set the run flag of worker ci
AboutToSignal == pc \in {"mt_notify", "mt_notify_exit"}

\* C23: the controller swaps and rebalances only after every worker has
\* drained its slice and cleared its run flag, and every go signal stands
\* for one layer expansion of its worker: the flag is set only for a waiting
\* worker whose flag is clear, a worker leaves its wait only on a set flag,
\* the flag is cleared only by its worker at the end of an expansion with
\* the slice drained, and under fair scheduling a signalled worker leaves
\* its wait.
C23_OneExpansionPerSignal ==
    /\ [](AboutToSignal => (~notifiers[ci] /\ wpc[ci] = "wait"))
    /\ [][ wpc # <<>> =>
            /\ ControllerSwaps =>
                  \A i \in DOMAIN wpc : Parked(i) /\ thread_tasks[i] = <<>>
            /\ \A i \in DOMAIN wpc :
                  /\ (~notifiers[i] /\ notifiers'[i]) =>
                        (wpc[i] = "wait" /\ wpc'[i] = "wait")
                  /\ (wpc[i] = "wait" /\ wpc'[i] # "wait") =>
                        (notifiers[i] /\ notifiers'[i])
                  /\ (notifiers[i] /\ ~notifiers'[i]) =>
                        /\ wpc[i] = "run" /\ wpc'[i] = "wait"
                        /\ thread_tasks[i] = <<>>
                  /\ (wpc[i] = "run" /\ wpc'[i] # "run") => ~notifiers'[i]
          ]_vars
    /\ \A i \in 1..MaxThreads :
          (i \in DOMAIN wpc /\ wpc[i] = "wait" /\ notifiers[i])
              ~> (i \in DOMAIN wpc /\ wpc[i] # "wait")

\* in the second layer of a run with two workers the first worker has
\* finished its expansion and the second is still at work
C23_Witness ==
    /\ threads = 2 /\ pc = "mt_wait"
    /\ instructions_left < maximum_instructions(maps)
    /\ Parked(1) /\ thread_tasks[1] = <<>>
    /\ wpc[2] = "run" /\ notifiers[2] /\ thread_outputs[2] # <<>>

\* the layers the BFS driver has expanded or is expanding: instructions_left
\* is decremented after the layer, unless the loop is left
LayersStarted == maximum_instructions(maps) - instructions_left + 1

\* the step expands states of a layer: a pass of single_threaded_bfs whose
\* loop condition holds, or a worker's call of the kernel
ExpandsLayer ==
    \/ pc = "single_threaded_bfs" /\ DeltaList_get(list, end) = 0
    \/ \E i \in DOMAIN wpc : wpc[i] = "run" /\ thread_tasks'[i] # thread_tasks[i]

\* C24: the BFS drivers expand a layer only while fewer than
\* maximum_instructions(maps) layers have been expanded, so that at most
\* maximum_instructions(maps) layers are expanded in a run.
C24_AsStated ==
    [][ (strategy = "bfs" /\ ExpandsLayer) =>
            LayersStarted <= maximum_instructions(maps) ]_vars

\* single_threaded_bfs has returned after the pass that expanded layer
\* maximum_instructions(maps) + 1, in which the goal was written
C24_Witness ==
    /\ strategy = "bfs" /\ pc = "callback" /\ dirs = <<>>
    /\ instructions_left = 0
    /\ tasks # <<>>
    /\ DeltaList_get(list, end) # 0


(***************************************************************************)
(* Claims about the back-walk of the callback (checked under Spec).        *)
(***************************************************************************)
\* the step is a pass through the loop of callback that goes one state back
StepsBack == pc = "callback" /\ dirs' # dirs

ForcedTarget(i) ==
    LET state == Head(thread_tasks[i])
        raw == Branches(maps, width, height, state)[wbranch[i]][2]
    IN  IF /\ RESPECT_HOLES
           /\ raw # state
           /\ Adjusted(raw) # raw
           /\ DeltaList_get(list, idx(Adjusted(raw))) = 0
        THEN raw ELSE <<>>

\* worker i is about to call the closure of the kernel
AboutToCall(i) == wpc[i] = "run" /\ thread_tasks[i] # <<>>

\* C27: every forced write of the program goes to an unwritten slot: the
\* sentinel goes to a new list, the raw index a worker writes is unwritten
\* at the call, no list reaches the unreachable!() arm of a forced write,
\* a slot that holds a code keeps it (no second code is or-ed in), and the
\* replay of into_bitset gives a list with the codes of the map.
C27_ForcedWritesFindSlotEmpty ==
    /\ [](\A kd \in Kinds : DeltaList_get(DeltaList_new(kd, states_count), 0) = 0)
    /\ [](~list.panicked)
    /\ [](\A i \in DOMAIN wpc :
             (AboutToCall(i) /\ ForcedTarget(i) # <<>>)
                => DeltaList_get(list, idx(ForcedTarget(i))) = 0)
    /\ [][ ListCreated =>
             \A k \in 0..(states_count - 1) :
                 DeltaList_get(list, k) # 0
                    => DeltaList_get(list', k) = DeltaList_get(list, k) ]_vars
    /\ [](pc = "astar_hash_map" =>
             \E b \in { into_bitset(list, states_count) } :
                 /\ ~b.panicked
                 /\ \A k \in 0..(states_count - 1) :
                       DeltaList_get(b, k) = DeltaList_get(list, k))

\* a worker is about to write a raw index while the other worker is at work
C27_Witness ==
    /\ threads = 2 /\ DOMAIN wpc = {1, 2}
    /\ AboutToCall(1) /\ ForcedTarget(1) # <<>>
    /\ AboutToCall(2)

\* the states the step expands: the tasks of a pass of single_threaded_bfs,
\* the state of a worker's call of the closure, the state launch_astar pops
Expanded ==
    IF pc = "single_threaded_bfs" /\ DeltaList_get(list, end) = 0
    THEN { tasks[k] : k \in DOMAIN tasks }
    ELSE IF pc \in {"astar_hash_map", "astar_bit_set"}
    THEN { AStarPriorityQueue_pop(queue).task } \ { <<>> }
    ELSE { Head(thread_tasks[i]) :
             i \in { j \in DOMAIN wpc :
                       AboutToCall(j) /\ thread_tasks'[j] # thread_tasks[j] } }

\* the states the step emits into a vector of the search
Emitted ==
    IF pc = "single_threaded_bfs" THEN { tasks'[k] : k \in DOMAIN tasks' }
    ELSE IF pc \in {"astar_hash_map", "astar_bit_set"}
    THEN { output'[k] : k \in DOMAIN output' }
    ELSE { thread_outputs'[i][Len(thread_outputs'[i])] :
             i \in { j \in DOMAIN wpc : Pushes(j) } }

\* C28: no expansion of any driver emits the state it expands or writes a
\* code at the index of that state.
C28_AsStated ==
    [][ \A e \in Expanded :
            /\ DeltaList_get(list', idx(e)) = DeltaList_get(list, idx(e))
            /\ e \notin Emitted ]_vars

\* launch_astar has expanded the start and written a code into its slot on
\* the way
C28_Witness ==
    /\ strategy = "astar" /\ RESPECT_HOLES
    /\ pc \in {"astar_hash_map", "astar_bit_set"}
    /\ ListCreated /\ DeltaList_get(list, 0) \notin {0, 1}
    /\ \A k \in 0..(states_count - 1) :
          DeltaList_get(list, k) # 0 =>
              \E n \in 1..4, holes \in BOOLEAN :
                  k = idx(JointStep(holes, maps, <<0, 0, 0, 0>>,
                                    ALL_INSTRUCTIONS[n]))


(***************************************************************************)
(* Claims about the promotion of the hash map in launch_astar.             *)
(***************************************************************************)
\* the two lists answer get alike on every index
SameCodes(a, b) ==
    \A i \in 0..(states_count - 1) : DeltaList_get(a, i) = DeltaList_get(b, i)

\* let _ = loop { search!(list) } of launch_astar as one function of the
\* queue and the list: the list at the break and whether report! is reached
RECURSIVE astar_loop(_, _)
astar_loop(q, l) ==
    The({ IF p.task = <<>>
          THEN [list |-> l,
                pc |-> IF p.queue.panicked THEN "panic" ELSE "callback"]
          ELSE The({ IF r.delta_list.panicked
                     THEN [list |-> r.delta_list, pc |-> "panic"]
                     ELSE IF DeltaList_get(r.delta_list, end) # 0
                     THEN [list |-> r.delta_list, pc |-> "callback"]
                     ELSE The({ IF q2.panicked
                                THEN [list |-> r.delta_list, pc |-> "panic"]
                                ELSE astar_loop(q2, r.delta_list) :
                                q2 \in { push_all(p.queue, r.output) } }) :
                     r \in { handle_single_4d_state(RESPECT_HOLES, maps,
                                 width, height, tiles_count, p.task, <<>>,
                                 l) } }) :
          p \in { AStarPriorityQueue_pop(q) } })

\* launch_astar with use_hash_map_first = false, from the push of the start
astar_on_bit_set ==
    astar_loop(AStarPriorityQueue_push(
                   AStarPriorityQueue_new(Q, RESPECT_HOLES, width, height,
                                          maps), <<0, 0, 0, 0>>),
               BitSetDeltaList_new(states_count))

\* C33: into_bitset keeps the table: for every hash map the search reaches,
\* get of the promoted bit set equals get of the map on every index of
\* [0, len) and the promotion does not panic; every step of the search on
\* the map writes the codes and pushes or emits the states that the same
\* step on the promoted bit set writes, pushes and emits; and a search
\* started on the map, promoted or not, hands the callback a list with the
\* codes of the list of the search run on a BitSetDeltaList from the start
\* (and panics iff that one panics), so the callback returns the same
\* instructions.
C33_PromotionKeepsTable ==
    /\ [](pc = "astar_hash_map" =>
            \E b \in { into_bitset(list, states_count) } :
                ~b.panicked /\ b.kind = "BitSet" /\ SameCodes(b, list))
    /\ [][ (pc = "astar_hash_map") =>
             \E p \in { AStarPriorityQueue_pop(queue) } :
                p.task # <<>> =>
                   \E rb \in { handle_single_4d_state(RESPECT_HOLES, maps,
                                   width, height, tiles_count, p.task,
                                   output, into_bitset(list, states_count)) } :
                      /\ SameCodes(list', rb.delta_list)
                      /\ pc' = "callback" => output' = rb.output
                      /\ pc' \in {"astar_hash_map", "astar_bit_set"} =>
                            queue' = push_all(p.queue, rb.output) ]_vars
    /\ []((strategy = "astar" /\ use_hash_map_first
              /\ pc \in {"callback", "panic"} /\ dirs = <<>>) =>
            \E ref \in { astar_on_bit_set } :
                /\ ref.pc = pc
                /\ pc = "callback" => SameCodes(list, ref.list))

\* a search started on the hash map was promoted, went on and reached the
\* goal on the bit set, and the callback has returned its instructions
C33_Witness ==
    /\ strategy = "astar" /\ use_hash_map_first
    /\ list.kind = "BitSet"
    /\ DeltaList_get(list, end) # 0
    /\ pc = "done" /\ Len(instructions) >= 2


(***************************************************************************)
(* Claims about the keys of the priority queues of launch_astar.           *)
(***************************************************************************)
\* the buckets of the queue that hold the state
BucketsOf(q, state) ==
    { i \in DOMAIN q.heap :
        \E k \in DOMAIN q.tasks[i + 1] : q.tasks[i + 1][k] = state }

\* the states the queue holds
Queued(q) ==
    UNION { { q.tasks[i][k] : k \in DOMAIN q.tasks[i] } : i \in DOMAIN q.tasks }

DisparityQueue ==
    /\ strategy = "astar" /\ Q = "DisparityPunishableManhattan"
    /\ pc \in {"astar_hash_map", "astar_bit_set"}

\* C34 as stated: the bucket of DisparityPunishableManhattanDistance-
\* PriorityQueue::push for a state is (d0 + d1) + |d0 - d1| = 2 * max(d0, d1)
\* with d0 = x0 + y0 and d1 = x1 + y1, for every state of the grid and for
\* every state in the queue of a search.
C34_AsStated ==
    DisparityQueue =>
        /\ \A s \in (0..(width - 1)) \X (0..(height - 1))
                       \X (0..(width - 1)) \X (0..(height - 1)) :
              BucketsOf(DisparityPunishableManhattanDistancePriorityQueue_push(
                            DisparityPunishableManhattanDistancePriorityQueue_new(
                                width, height), s), s)
                = { (s[1] + s[2] + s[3] + s[4])
                       + (Max(s[1] + s[2], s[3] + s[4])
                            - Min(s[1] + s[2], s[3] + s[4])) }
        /\ \A s \in Queued(queue) :
              BucketsOf(queue, s) = { 2 * Max(s[1] + s[2], s[3] + s[4]) }

\* C34 amended: the bucket is (d0 + d1) - |d0 - d1| = 2 * min(d0, d1); the
\* push never panics on a state of the grid.
C34_KeyIsTwiceMin ==
    DisparityQueue =>
        /\ \A s \in (0..(width - 1)) \X (0..(height - 1))
                       \X (0..(width - 1)) \X (0..(height - 1)) :
              \E q \in { DisparityPunishableManhattanDistancePriorityQueue_push(
                            DisparityPunishableManhattanDistancePriorityQueue_new(
                                width, height), s) } :
                 /\ ~q.panicked
                 /\ BucketsOf(q, s)
                      = { (s[1] + s[2] + s[3] + s[4])
                             - (Max(s[1] + s[2], s[3] + s[4])
                                  - Min(s[1] + s[2], s[3] + s[4])) }
        /\ \A s \in Queued(queue) :
              BucketsOf(queue, s) = { 2 * Min(s[1] + s[2], s[3] + s[4]) }

\* the queue of a search holds a state whose walkers have made different
\* progress
C34_Witness ==
    /\ DisparityQueue
    /\ \E s \in Queued(queue) : s[1] + s[2] # s[3] + s[4]

\* the remaining distance the queue of the search orders the state by: the
\* Manhattan distances of both walkers to the end tile
\* (2 * (W - 1 + H - 1) minus the key of ManhattanDistancePriorityQueue), or
\* the sum of the two distances of bfs_2d_distances
HeuristicValue(s) ==
    IF Q = "SingleBFS"
    THEN queue.distances[1][tile_index_with(s[1], s[2], width)]
            + queue.distances[2][tile_index_with(s[3], s[4], width)]
    ELSE (width - 1 - s[1]) + (height - 1 - s[2])
            + (width - 1 - s[3]) + (height - 1 - s[4])

\* the least number of instructions that take both walkers from s to the
\* end tile, -1 if there is none
InstructionsToGoal(s) ==
    GraphDistance(RESPECT_HOLES, maps, end_state(width, height), {s}, {s}, 0)

HeuristicQueue ==
    /\ strategy = "astar" /\ Q \in {"Manhattan", "SingleBFS"}
    /\ pc \in {"astar_hash_map", "astar_bit_set"}
    /\ ~queue.panicked

\* C35 as stated: for every state in the queue of a search from which the
\* goal can be reached, the heuristic value (the Manhattan remaining-distance
\* sum, or the sum of the distances of bfs_2d_distances) is at most the least
\* number of instructions that take both walkers to the goal.
C35_AsStated ==
    HeuristicQueue =>
        \A s \in Queued(queue) :
            \E c \in { InstructionsToGoal(s) } :
                c # -1 => HeuristicValue(s) <= c

\* the queue of SingleBFSDistancePriorityQueue holds a state whose distance
\* sum is twice the number of instructions the walkers need
C35_Witness ==
    /\ HeuristicQueue /\ Q = "SingleBFS"
    /\ \E s \in Queued(queue) :
          \E c \in { InstructionsToGoal(s) } :
              c >= 1 /\ HeuristicValue(s) = 2 * c


(***************************************************************************)
(* Claims about the range of the coordinates and of the indices.           *)
(***************************************************************************)
\* the four coordinates lie in the grid
InsideGrid(s) ==
    /\ s[1] \in 0..(width - 1) /\ s[2] \in 0..(height - 1)
    /\ s[3] \in 0..(width - 1) /\ s[4] \in 0..(height - 1)

\* the states in the vectors of the BFS drivers and in the queue of A*
Placed ==
    { tasks[k] : k \in DOMAIN tasks } \cup { output[k] : k \in DOMAIN output }
       \cup UNION { { thread_tasks[i][k] : k \in DOMAIN thread_tasks[i] } :
                    i \in DOMAIN thread_tasks }
       \cup UNION { { thread_outputs[i][k] : k \in DOMAIN thread_outputs[i] } :
                    i \in DOMAIN thread_outputs }
       \cup (IF queue.type \in {"none", "None"} THEN {} ELSE Queued(queue))

\* the indices the list has been written at
WrittenIndices ==
    CASE list.kind = "BitSet" -> UNION { list.bit_sets[i] : i \in 1..4 }
      [] list.kind = "LazyHashMap" -> DOMAIN list.map
      [] list.kind = "AtomicBitSet" ->
             list.visited \cup { i \in DOMAIN list.bits : list.bits[i] # 0 }
      [] list.kind = "CompareAndSwapAtomicBitSet" ->
             { i \in DOMAIN list.values : list.values[i] # 0 }
      [] OTHER -> {}

\* C38: with the perimeter walls on both maps, every state in a frontier or
\* in the queue has its four coordinates in the grid, every index the list
\* was written at lies in [0, (W*H)^2), and every state a driver step
\* expands does its wall look-ups (the wall before and the wall after the
\* tile, on both axes) and its hole look-ups at indices the map has.
C38_CoordinatesInsideGrid ==
    strategy \in {"bfs", "astar"} =>
        /\ \A s \in Placed : InsideGrid(s)
        /\ WrittenIndices \subseteq 0..(states_count - 1)
        /\ \A s \in Placed : \A i \in 1..2 :
              /\ vertical_wall_index(maps[i], s[2 * i - 1], s[2 * i]) + 1
                    \in 0..((width + 1) * height - 1)
              /\ vertical_wall_index(maps[i], s[2 * i - 1], s[2 * i]) >= 0
              /\ horizontal_wall_index(maps[i], s[2 * i - 1], s[2 * i]) + 1
                    \in 0..(width * (height + 1) - 1)
              /\ horizontal_wall_index(maps[i], s[2 * i - 1], s[2 * i]) >= 0
              /\ tile_index_with(s[2 * i - 1], s[2 * i], width)
                    \in 0..(tiles_count - 1)

\* two workers hold states on the far edges of the grid in their frontiers
C38_Witness ==
    /\ strategy = "bfs" /\ threads = 2
    /\ \E s \in Placed : s[1] = width - 1 /\ s[4] = height - 1
    /\ \E s \in Placed : s[1] = 0 /\ s[3] = width - 1 /\ s[2] # 0
    /\ Cardinality(WrittenIndices) >= 4

(***************************************************************************)
(* The DeltaList trait used directly (delta_list.rs): caller threads make  *)
(* calls of set on one list.  BitSetDeltaList and HashMapLazyDeltaList     *)
(* take &mut self, so they have one caller; the atomic lists take &self    *)
(* and are shared.  A call on the compare-and-swap list is one atomic      *)
(* operation; a call on AtomicBitSetDeltaList is the fetch_or on visited   *)
(* and, if the call goes on, the fetch_or on bits.                         *)
(*                                                                         *)
(* calls.of[t] is the latest call of thread t: before and after are        *)
(* get(index) at its first and at its last operation, alone tells that no  *)
(* other call on the same slot was in flight at any time during the call.  *)
(* calls.wins[i] counts the unforced calls on slot i that returned true,   *)
(* calls.unforced[i] tells that such a call returned, calls.forced[i]     *)
(* that a forced call was made on slot i.                                  *)
(***************************************************************************)
\* the slots the callers use and the codes they write
Slots == {0}
Codes == {5, 10}
Callers == 1..threads

InFlight(t, index) == calls.of[t].pc = "mid" /\ calls.of[t].index = index

\* thread u has taken a step on the slot: the calls in flight on it are no
\* longer alone
Disturb(of, u, index) ==
    [t \in DOMAIN of |->
        IF t # u /\ of[t].pc = "mid" /\ of[t].index = index
        THEN [of[t] EXCEPT !.alone = FALSE] ELSE of[t]]

DLInit ==
    /\ kind \in Kinds
    /\ threads \in (IF kind \in SyncKinds THEN {1} ELSE 1..MaxThreads)
    /\ list = DeltaList_new(kind, Cardinality(Slots))
    /\ calls = [of |-> [t \in 1..threads |-> [pc |-> "idle"]],
                wins |-> [i \in Slots |-> 0],
                unforced |-> [i \in Slots |-> FALSE],
                forced |-> [i \in Slots |-> FALSE]]
    /\ width = 1 /\ height = 1 /\ maps = <<>>
    /\ RESPECT_HOLES = FALSE
    /\ strategy = "none" /\ Q = "none" /\ use_hash_map_first = FALSE
    /\ InitIdle

\* the bookkeeping of a call that returns
Returned(c, ret, after) == [c EXCEPT !.pc = "returned", !.ret = ret, !.after = after]

Count(cs, index, FORCED, ret) ==
    [cs EXCEPT !.wins[index] = IF ~FORCED /\ ret /\ @ < 2 THEN @ + 1 ELSE @,
               !.unforced[index] = @ \/ ~FORCED]

\* thread t calls set::<FORCED>(index, value): the whole call, or for
\* AtomicBitSetDeltaList its first atomic operation
DLCall(t, FORCED, index, value) ==
    /\ pc = "launch"
    /\ ~list.panicked
    /\ calls.of[t].pc # "mid"
    /\ LET c == [pc |-> "mid", FORCED |-> FORCED, index |-> index,
                 value |-> value, before |-> DeltaList_get(list, index),
                 ret |-> FALSE, after |-> 0,
                 alone |-> \A u \in Callers \ {t} : ~InFlight(u, index)]
           cs == [calls EXCEPT !.of = Disturb(@, t, index),
                               !.forced[index] = @ \/ FORCED]
       IN  IF kind = "AtomicBitSet"
           THEN LET v == fetch_or_visited(list, index)
                IN  /\ list' = v.list
                    /\ calls' =
                         IF FORCED \/ ~v.old
                         THEN [cs EXCEPT !.of[t] = c]
                         ELSE Count([cs EXCEPT !.of[t] = Returned(c, FALSE,
                                         DeltaList_get(v.list, index))],
                                    index, FORCED, FALSE)
           ELSE LET r == DeltaList_set(list, FORCED, index, value)
                IN  /\ list' = r.list
                    /\ calls' =
                         IF r.list.panicked
                         THEN [cs EXCEPT !.of[t] = [c EXCEPT !.pc = "panicked"]]
                         ELSE Count([cs EXCEPT !.of[t] = Returned(c, r.ret,
                                         DeltaList_get(r.list, index))],
                                    index, FORCED, r.ret)
    /\ UNCHANGED << width, height, maps, RESPECT_HOLES, strategy, Q,
                    use_hash_map_first, kind, threads, pc, st_vars,
                    instructions_left, mt_vars, queue, cb_vars >>

\* the second atomic operation of AtomicBitSetDeltaList::set
DLFinish(t) ==
    /\ pc = "launch"
    /\ calls.of[t].pc = "mid"
    /\ LET c == calls.of[t]
       IN  /\ list' = fetch_or_bits(list, c.index, c.value)
           /\ calls' = Count([calls EXCEPT
                                !.of = [Disturb(@, t, c.index) EXCEPT
                                          ![t] = Returned(c, TRUE,
                                             DeltaList_get(list', c.index))]],
                             c.index, c.FORCED, TRUE)
    /\ UNCHANGED << width, height, maps, RESPECT_HOLES, strategy, Q,
                    use_hash_map_first, kind, threads, pc, st_vars,
                    instructions_left, mt_vars, queue, cb_vars >>

DLNext ==
    \/ \E t \in Callers, FORCED \in BOOLEAN, index \in Slots, value \in Codes :
           DLCall(t, FORCED, index, value)
    \/ \E t \in Callers : DLFinish(t)

SpecDL == DLInit /\ [][DLNext]_vars

(***************************************************************************)
(* Claims about the DeltaList trait (checked under SpecDL).                *)
(***************************************************************************)
\* the latest call of thread t has returned or panicked
Ended(t) == calls.of[t].pc \in {"returned", "panicked"}

\* C4: on both atomic lists, the unforced calls that threads make on one
\* slot that starts unvisited (and is never written by a forced call) have at
\* most one winner at any time and, once one of them has returned and none
\* is in flight, exactly one winner.
C4_ExactlyOneWinner ==
    kind \in AsyncKinds =>
        \A i \in Slots :
            ~calls.forced[i] =>
                /\ calls.wins[i] <= 1
                /\ (calls.unforced[i] /\ \A t \in Callers : ~InFlight(t, i))
                       => calls.wins[i] = 1

\* two calls of AtomicBitSetDeltaList::set on the slot overlapped, one
\* returned true and the other false
C4_Witness ==
    /\ kind = "AtomicBitSet"
    /\ \E t, u \in Callers :
          /\ t # u
          /\ calls.of[t].pc = "returned" /\ calls.of[u].pc = "returned"
          /\ ~calls.of[t].FORCED /\ ~calls.of[u].FORCED
          /\ calls.of[t].ret /\ ~calls.of[u].ret
          /\ ~calls.of[t].alone
          /\ ~calls.forced[calls.of[t].index]

\* the three parts of C5 for one returned unforced call
UnforcedContract(c) ==
    /\ c.ret <=> c.before = 0
    /\ c.ret => c.after = c.value
    /\ ~c.ret => c.after = c.before

\* C5 as stated: on each of the four lists, every unforced call with a
\* non-zero code returns true iff get(index) was 0 immediately before it;
\* after a true return get(index) is the code, after a false return it is
\* unchanged.
C5_AsStated ==
    \A t \in Callers :
        (calls.of[t].pc = "returned" /\ ~calls.of[t].FORCED)
            => UnforcedContract(calls.of[t])

\* C5, amended: the same for every unforced call during which no other call
\* on the slot was in flight.
C5_UnforcedSetAlone ==
    \A t \in Callers :
        (calls.of[t].pc = "returned" /\ ~calls.of[t].FORCED
            /\ calls.of[t].alone)
            => UnforcedContract(calls.of[t])

\* on each list an unforced call has met a written slot and left it as it
\* was, and on AtomicBitSetDeltaList an unforced call has won an empty slot
C5_Witness ==
    \E t \in Callers :
        /\ calls.of[t].pc = "returned" /\ ~calls.of[t].FORCED
        /\ calls.of[t].alone
        /\ \/ ~calls.of[t].ret /\ calls.of[t].before = 10
              /\ calls.of[t].value = 5 /\ kind = "LazyHashMap"
           \/ calls.of[t].ret /\ calls.of[t].before = 0
              /\ kind = "AtomicBitSet" /\ threads = 2

\* C6 as stated: on each of the four lists and for every prior state of the
\* slot, a forced call completes, returns true and leaves the code in the
\* slot.
C6_AsStated ==
    \A t \in Callers :
        (Ended(t) /\ calls.of[t].FORCED)
            => /\ calls.of[t].pc = "returned"
               /\ calls.of[t].ret
               /\ calls.of[t].after = calls.of[t].value

\* C6, amended: a forced call during which no other call on the slot was in
\* flight completes, returns true and leaves the code in the slot if the
\* slot was unvisited, on each of the four lists; on BitSetDeltaList and on
\* CompareAndSwapAtomicBitSetDeltaList it does so for every prior state.
C6_ForcedSetOnEmpty ==
    \A t \in Callers :
        (/\ Ended(t) /\ calls.of[t].FORCED /\ calls.of[t].alone
         /\ \/ calls.of[t].before = 0
            \/ kind \in {"BitSet", "CompareAndSwapAtomicBitSet"})
            => /\ calls.of[t].pc = "returned"
               /\ calls.of[t].ret
               /\ calls.of[t].after = calls.of[t].value

\* a forced call has overwritten a code on BitSetDeltaList
C6_Witness ==
    \E t \in Callers :
        /\ kind = "BitSet"
        /\ calls.of[t].pc = "returned" /\ calls.of[t].FORCED
        /\ calls.of[t].before = 5 /\ calls.of[t].value = 10
        /\ calls.of[t].after = 10

(***************************************************************************)
(* GenericPriorityQueue used directly (astar.rs): a caller pushes states   *)
(* into buckets and pops.  The pushed states are numbered so that each can *)
(* be told from the others; calls keeps what the caller knows: the states  *)
(* pushed and not yet returned (with the bucket of each), those returned,  *)
(* and the latest call.                                                    *)
(***************************************************************************)
Indices == 3

PQInit ==
    /\ \E max \in BOOLEAN : queue = GenericPriorityQueue_new(Indices, max)
    /\ calls = [next |-> 1, pending |-> {}, popped |-> {}, twice |-> FALSE,
                last |-> [op |-> "none"]]
    /\ kind = "none" /\ threads = 1
    /\ list = [kind |-> "none", panicked |-> FALSE]
    /\ width = 1 /\ height = 1 /\ maps = <<>>
    /\ RESPECT_HOLES = FALSE
    /\ strategy = "none" /\ Q = "none" /\ use_hash_map_first = FALSE
    /\ pc = "launch"
    /\ tasks = <<>> /\ output = <<>> /\ instructions_left = 0
    /\ thread_tasks = <<>> /\ thread_outputs = <<>> /\ notifiers = <<>>
    /\ done = FALSE /\ wpc = <<>> /\ wbranch = <<>> /\ ci = 0
    /\ cb_state = <<0, 0, 0, 0>> /\ dirs = <<>>
    /\ instructions = <<>> /\ moves = 0

\* push(i, state); an index outside the buckets panics
PQPush(i) ==
    /\ strategy = "none" /\ Q = "none"
    /\ ~queue.panicked
    /\ calls.next <= MaxPushes
    /\ \E state \in { <<calls.next, 0, 0, 0>> } :
          /\ queue' = GenericPriorityQueue_push(queue, i, state)
          /\ calls' = [calls EXCEPT
                          !.next = @ + 1,
                          !.pending = IF queue'.panicked THEN @
                                      ELSE @ \cup { <<i, state>> },
                          !.last = [op |-> "push"]]
    /\ UNCHANGED << width, height, maps, RESPECT_HOLES, strategy, Q,
                    use_hash_map_first, kind, threads, pc, list, st_vars,
                    instructions_left, mt_vars, cb_vars >>

\* pop()
PQPop ==
    /\ strategy = "none" /\ Q = "none"
    /\ ~queue.panicked
    /\ \E r \in { GenericPriorityQueue_pop(queue) } :
          /\ queue' = r.queue
          /\ calls' = [calls EXCEPT
                          !.pending = { e \in @ : e[2] # r.task },
                          !.popped = IF r.task = <<>> THEN @
                                     ELSE @ \cup { r.task },
                          !.twice = @ \/ r.task \in calls.popped,
                          !.last = [op |-> "pop", task |-> r.task,
                                    before |-> calls.pending]]
    /\ UNCHANGED << width, height, maps, RESPECT_HOLES, strategy, Q,
                    use_hash_map_first, kind, threads, pc, list, st_vars,
                    instructions_left, mt_vars, cb_vars >>

PQNext ==
    \/ \E i \in 0..Indices : PQPush(i)
    \/ PQPop

SpecPQ == PQInit /\ [][PQNext]_vars

(***************************************************************************)
(* Claims about GenericPriorityQueue (checked under SpecPQ).               *)
(***************************************************************************)
\* the states pushed so far by calls that returned
PushedStates ==
    { e[2] : e \in calls.pending } \cup calls.popped

\* C13: after any sequence of push and pop, a pop returns a state of the
\* lowest-index non-empty bucket (Reverse<usize>) or of the highest-index one
\* (usize), returns None iff every pushed state has been popped, and no
\* state is returned twice or lost.
C13_PopContract ==
    /\ calls.last.op = "pop" =>
          /\ ~queue.panicked
          /\ calls.last.task = <<>> <=> calls.last.before = {}
          /\ calls.last.task # <<>> =>
                \E e \in calls.last.before :
                    /\ e[2] = calls.last.task
                    /\ \A f \in calls.last.before :
                          IF queue.max THEN f[1] <= e[1] ELSE e[1] <= f[1]
    /\ ~calls.twice
    /\ calls.popped \cap { e[2] : e \in calls.pending } = {}
    /\ ~queue.panicked =>
          Cardinality(PushedStates) = calls.next - 1

\* a pop on a max-queue has returned a state of the higher of two non-empty
\* buckets after an earlier pop
C13_Witness ==
    /\ queue.max
    /\ calls.last.op = "pop" /\ calls.last.task # <<>>
    /\ calls.popped # { calls.last.task }
    /\ \E e, f \in calls.last.before :
          e[1] < f[1] /\ f[2] = calls.last.task

\* no call of set is between its two atomic operations
Quiescent == \A t \in Callers : calls.of[t].pc # "mid"

\* C32: on AtomicBitSetDeltaList, whenever no call of set is in progress the
\* visited bit of every index is set iff get of the index is not 0; a code
\* is never readable before its visited bit; and once a call of set has
\* returned true, get of its index is not 0, whatever other calls are in
\* flight: a reader behind the barrier never finds the goal unvisited after
\* a worker's set on it returned true.
C32_VisitedIffWritten ==
    kind = "AtomicBitSet" =>
        /\ Quiescent =>
              \A i \in Slots :
                  i \in list.visited <=> AtomicBitSetDeltaList_get(list, i) # 0
        /\ \A i \in Slots :
              AtomicBitSetDeltaList_get(list, i) # 0 => i \in list.visited
        /\ \A t \in Callers :
              (calls.of[t].pc = "returned" /\ calls.of[t].ret) =>
                  AtomicBitSetDeltaList_get(list, calls.of[t].index) # 0

\* two threads have called set on one slot of an AtomicBitSetDeltaList at
\* the same time, one has won, the other has lost, and both have returned
C32_Witness ==
    /\ kind = "AtomicBitSet" /\ threads = 2 /\ Quiescent
    /\ \E t, u \in Callers :
          /\ calls.of[t].pc = "returned" /\ calls.of[t].ret
          /\ ~calls.of[t].alone /\ ~calls.of[t].FORCED
          /\ calls.of[u].pc = "returned" /\ ~calls.of[u].ret
          /\ calls.of[u].index = calls.of[t].index

(***************************************************************************)
(* handle_single_4d_state called directly (bfs.rs): a caller expands up to *)
(* MaxExpansions states of the grid, one after the other, on one list that *)
(* starts empty.  calls keeps, for each call, the state, the list before   *)
(* and after, and the successors the call emitted.                         *)
(***************************************************************************)
GridStates(w, h) == (0..(w - 1)) \X (0..(h - 1)) \X (0..(w - 1)) \X (0..(h - 1))

KInit ==
    /\ strategy = "kernel"
    /\ kind = "BitSet" /\ threads = 1
    /\ Q = "none" /\ use_hash_map_first = FALSE
    /\ width = 2 /\ height = 2 /\ maps \in SmallMapPairs(2, 2)
    /\ RESPECT_HOLES \in BOOLEAN
    /\ list = DeltaList_new(kind, states_count)
    /\ calls = <<>>
    /\ InitIdle

KExpand(state) ==
    /\ strategy = "kernel"
    /\ Len(calls) < MaxExpansions
    /\ \E r \in { handle_single_4d_state(RESPECT_HOLES, maps, width, height,
                        tiles_count, state, <<>>, list) } :
          /\ list' = r.delta_list
          /\ calls' = Append(calls, [state |-> state, before |-> list,
                                     after |-> r.delta_list,
                                     output |-> r.output])
    /\ UNCHANGED << width, height, maps, RESPECT_HOLES, strategy, Q,
                    use_hash_map_first, kind, threads, pc, st_vars,
                    instructions_left, mt_vars, queue, cb_vars >>

KNext == \E state \in GridStates(width, height) : KExpand(state)

SpecKernel == KInit /\ [][KNext]_vars

(***************************************************************************)
(* Claims about the kernel (checked under SpecKernel).                     *)
(***************************************************************************)
\* walker k (1 or 2) of the state stands on the end tile
OnGoal(state, k) ==
    state[2 * k - 1] = width - 1 /\ state[2 * k] = height - 1

RECURSIVE ExpectedOutput(_, _, _, _)
ExpectedOutput(state, before, order, acc) ==
    IF order = <<>> THEN acc
    ELSE LET raw == JointStep(FALSE, maps, state, ALL_INSTRUCTIONS[Head(order)])
             adj == JointStep(RESPECT_HOLES, maps, state,
                              ALL_INSTRUCTIONS[Head(order)])
             free == /\ DeltaList_get(before,
                            calculate_visited_index(adj, width, tiles_count))
                          = 0
                     /\ \A j \in DOMAIN acc : acc[j] # adj
         IN  ExpectedOutput(state, before, Tail(order),
                            IF raw # state /\ free THEN Append(acc, adj)
                            ELSE acc)

\* C18 as stated: two calls of the kernel with the same state, maps and
\* respect_holes emit the same successor list, whatever the list holds and
\* whatever was expanded before.
C18_AsStated ==
    \A n, m \in DOMAIN calls :
        calls[n].state = calls[m].state => calls[n].output = calls[m].output

\* C18, amended: the successors a call emits are a function of the state,
\* the maps, respect_holes and of which candidate slots the list holds
\* written: they are the candidates of the state, in branch order, whose
\* slot was unwritten.
C18_OutputIsUnwrittenCandidates ==
    \A n \in DOMAIN calls :
        calls[n].output =
            ExpectedOutput(calls[n].state, calls[n].before, <<2, 1, 4, 3>>,
                           <<>>)

\* a second expansion of a state has emitted fewer successors than the first
C18_Witness ==
    /\ Len(calls) = 2
    /\ calls[1].state = calls[2].state
    /\ Len(calls[2].output) < Len(calls[1].output)

(***************************************************************************)
(* solve_multithreaded (multithreaded.rs): the channel-driven search with  *)
(* its own AtomicBitSet.  Here notifiers[i] is the number of messages in   *)
(* worker i's notifier channel, done the number of messages in the done    *)
(* channel, thread_tasks is threads_input (for a running worker: what its  *)
(* drain has not yielded yet), thread_outputs is threads_output, wbranch[i]*)
(* the index into Direction::ALL the worker handles next, ci the number of *)
(* sends or receives the controller has made in its current loop.          *)
(***************************************************************************)
\* most iterations of the back-walk of solve_multithreaded
MaxDirs == 12

\* Direction::ALL
Direction_ALL == <<"Right", "Left", "Up", "Down">>

Direction_apply(dir, pos) ==
    CASE dir = "Right" -> <<pos[1] + 1, pos[2]>>
      [] dir = "Left"  -> <<pos[1] - 1, pos[2]>>
      [] dir = "Up"    -> <<pos[1], pos[2] - 1>>
      [] dir = "Down"  -> <<pos[1], pos[2] + 1>>

Direction_opposite(dir) ==
    CASE dir = "Right" -> "Left"
      [] dir = "Left"  -> "Right"
      [] dir = "Up"    -> "Down"
      [] dir = "Down"  -> "Up"

Direction_bits(dir) ==
    CASE dir = "Right" -> <<FALSE, FALSE>>
      [] dir = "Left"  -> <<FALSE, TRUE>>
      [] dir = "Up"    -> <<TRUE, FALSE>>
      [] dir = "Down"  -> <<TRUE, TRUE>>

Direction_from_bits(bits) ==
    CASE bits = <<FALSE, FALSE>> -> "Right"
      [] bits = <<FALSE, TRUE>>  -> "Left"
      [] bits = <<TRUE, FALSE>>  -> "Up"
      [] bits = <<TRUE, TRUE>>   -> "Down"

Direction_blocked(dir, pos, map) ==
    CASE dir = "Right" ->
            vertical_wall_index(map, pos[1] + 1, pos[2]) \in map.vertical_walls
      [] dir = "Left" ->
            vertical_wall_index(map, pos[1], pos[2]) \in map.vertical_walls
      [] dir = "Up" ->
            horizontal_wall_index(map, pos[1], pos[2])
                \in map.horizontal_walls
      [] dir = "Down" ->
            horizontal_wall_index(map, pos[1], pos[2] + 1)
                \in map.horizontal_walls

\* AtomicBitSet::new: len / 64 + 1 words of visited bits and len / 16 + 1
\* words of 4-bit slots, all zero.  visited is the set of the set bits,
\* bits the slots that are not zero.
multithreaded_AtomicBitSet_new(len) ==
    [kind |-> "multithreaded", panicked |-> FALSE,
     visited_len |-> 64 * (len \div 64 + 1),
     bits_len |-> 16 * (len \div 16 + 1),
     visited |-> {},
     bits |-> [i \in {} |-> 0]]

\* bitwise exclusive or of two 4-bit values (fetch_xor on one slot)
BitXor4(a, b) ==
    bits2val([i \in 1..4 |-> val2bits(a)[i] # val2bits(b)[i]])

multithreaded_AtomicBitSet_get(bs, index) ==
    IF index \in DOMAIN bs.bits THEN bs.bits[index] ELSE 0

\* AtomicBitSet::set: TRUE when the slot was visited already, else the
\* visited bit is set, the value is xor-ed into the slot and FALSE returned
multithreaded_AtomicBitSet_set(bs, index, value) ==
    IF index \in bs.visited
    THEN [list |-> bs, ret |-> TRUE]
    ELSE [list |->
            [bs EXCEPT
               !.visited = @ \cup {index},
               !.bits = [i \in DOMAIN @ \cup {index} |->
                           IF i = index
                           THEN BitXor4(
                                  multithreaded_AtomicBitSet_get(bs, index),
                                  value)
                           ELSE @[i]]],
          ret |-> FALSE]

\* AtomicBitSet::set_bits, bits = [[b00, b01], [b10, b11]]
multithreaded_AtomicBitSet_set_bits(bs, index, bits) ==
    multithreaded_AtomicBitSet_set(bs, index,
        B2N(bits[1][1]) + 2 * B2N(bits[1][2])
          + 4 * B2N(bits[2][1]) + 8 * B2N(bits[2][2]))

multithreaded_AtomicBitSet_get_bits(bs, index) ==
    LET value == multithreaded_AtomicBitSet_get(bs, index)
    IN  << << value % 2 = 1, (value \div 2) % 2 = 1 >>,
           << (value \div 4) % 2 = 1, (value \div 8) % 2 = 1 >> >>

multithreaded_AtomicBitSet_visited(bs, index) == index \in bs.visited

\* State::START
State_START == <<0, 0, 0, 0>>

\* one pass of the body of "for dir in Direction::ALL" of thread_func for
\* one state: the bit set after it, the state pushed (or <<>>) and whether
\* the goal was marked
thread_func_dir(bs, state, dir) ==
    LET not_blocked ==
            << ~Direction_blocked(dir, <<state[1], state[2]>>, maps[1]),
               ~Direction_blocked(dir, <<state[3], state[4]>>, maps[2]) >>
        p0 == IF not_blocked[1]
              THEN Direction_apply(dir, <<state[1], state[2]>>)
              ELSE <<state[1], state[2]>>
        p1 == IF not_blocked[2]
              THEN Direction_apply(dir, <<state[3], state[4]>>)
              ELSE <<state[3], state[4]>>
        unadjusted_visited_i ==
            calculate_visited_index(p0 \o p1, width, tiles_count)
        a0 == IF RESPECT_HOLES
                 /\ tile_index(maps[1], p0[1], p0[2]) \in maps[1].holes
              THEN <<0, 0>> ELSE p0
        a1 == IF RESPECT_HOLES
                 /\ tile_index(maps[2], p1[1], p1[2]) \in maps[2].holes
              THEN <<0, 0>> ELSE p1
        positions == a0 \o a1
        visited_i == calculate_visited_index(positions, width, tiles_count)
        val == << not_blocked, Direction_bits(dir) >>
        first == multithreaded_AtomicBitSet_set_bits(bs, visited_i, val)
        second == multithreaded_AtomicBitSet_set_bits(
                      first.list, unadjusted_visited_i, val)
    IN  IF ~(not_blocked[1] \/ not_blocked[2])
        THEN [list |-> bs, push |-> <<>>, found |-> FALSE]
        ELSE IF first.ret
        THEN [list |-> first.list, push |-> <<>>, found |-> FALSE]
        ELSE IF visited_i = end
        THEN [list |-> second.list, push |-> <<>>, found |-> TRUE]
        ELSE [list |-> second.list, push |-> <<positions>>, found |-> FALSE]

\* the inputs of solve_multithreaded: the small pairs of 4x1 corridors and
\* of 2x2 maps
SMInit ==
    /\ strategy = "solve_multithreaded"
    /\ kind = "none" /\ Q = "none" /\ use_hash_map_first = FALSE
    /\ threads \in 1..MaxThreads
    /\ RESPECT_HOLES \in BOOLEAN
    /\ \/ width = 4 /\ height = 1 /\ maps \in SmallMapPairs(4, 1)
       \/ width = 2 /\ height = 2 /\ maps \in SmallMapPairs(2, 2)
    /\ list = [kind |-> "none", panicked |-> FALSE]
    /\ calls = <<>>
    /\ InitIdle

\* solve_multithreaded up to the controller loop: the vectors, the bit set
\* and the channels are created and the workers spawned
SMLaunch ==
    /\ strategy = "solve_multithreaded"
    /\ pc = "launch"
    /\ thread_tasks' = [i \in 1..threads |->
                           IF i = 1 THEN <<State_START>> ELSE <<>>]
    /\ thread_outputs' = [i \in 1..threads |-> <<>>]
    /\ list' = multithreaded_AtomicBitSet_new(states_count)
    /\ notifiers' = [i \in 1..threads |-> 0]
    /\ done' = 0
    /\ wpc' = [i \in 1..threads |-> "recv"]
    /\ wbranch' = [i \in 1..threads |-> 1]
    /\ ci' = 0
    /\ pc' = "sm_head"
    /\ UNCHANGED << input_vars, st_vars, instructions_left, queue, cb_vars >>

\* "while !bit_set.visited(end)": leave for the back-walk or start a step
SMLoopHead ==
    /\ pc = "sm_head"
    /\ IF multithreaded_AtomicBitSet_visited(list, end)
       THEN /\ pc' = "sm_back"
            /\ cb_state' = end_state(width, height)
            /\ dirs' = <<>>
            /\ moves' = 0
            /\ UNCHANGED << ci, instructions >>
       ELSE /\ pc' = "sm_notify"
            /\ ci' = 0
            /\ UNCHANGED cb_vars
    /\ UNCHANGED << input_vars, list, st_vars, instructions_left,
                    thread_tasks, thread_outputs, notifiers, done, wpc,
                    wbranch, queue >>

\* thread_notifiers[i].send(())
SMNotify ==
    /\ pc = "sm_notify"
    /\ notifiers' = [notifiers EXCEPT ![ci + 1] = @ + 1]
    /\ IF ci + 1 = threads
       THEN pc' = "sm_wait" /\ ci' = 0
       ELSE pc' = pc /\ ci' = ci + 1
    /\ UNCHANGED << input_vars, list, st_vars, instructions_left,
                    thread_tasks, thread_outputs, done, wpc, wbranch,
                    queue, cb_vars >>

\* done_receiver.recv()
SMRecv ==
    /\ pc = "sm_wait"
    /\ done > 0
    /\ done' = done - 1
    /\ IF ci + 1 = threads
       THEN pc' = "sm_swap" /\ ci' = 0
       ELSE pc' = pc /\ ci' = ci + 1
    /\ UNCHANGED << input_vars, list, st_vars, instructions_left,
                    thread_tasks, thread_outputs, notifiers, wpc, wbranch,
                    queue, cb_vars >>

\* the inner loop "for j in 0..threads" of the balancing, from j on, for
\* the short vector i; inputs is 1-based
RECURSIVE adjust_for_j(_, _, _, _)
adjust_for_j(inputs, avg_len, i, j) ==
    IF j > Len(inputs) THEN inputs
    ELSE IF i = j \/ Len(inputs[j]) <= avg_len
    THEN adjust_for_j(inputs, avg_len, i, j + 1)
    ELSE LET l == Max(Len(inputs[j]) - (avg_len - Len(inputs[i])), avg_len)
             moved == [inputs EXCEPT
                         ![i] = @ \o SubSeq(inputs[j], l + 1, Len(inputs[j])),
                         ![j] = SubSeq(@, 1, l)]
         IN  IF Len(moved[i]) >= avg_len THEN moved
             ELSE adjust_for_j(moved, avg_len, i, j + 1)

\* the outer loop "for i in 0..threads" of the balancing, from i on
RECURSIVE adjust_for_i(_, _, _)
adjust_for_i(inputs, avg_len, i) ==
    IF i > Len(inputs) THEN inputs
    ELSE IF Len(inputs[i]) >= avg_len
    THEN adjust_for_i(inputs, avg_len, i + 1)
    ELSE adjust_for_i(adjust_for_j(inputs, avg_len, i, 1), avg_len, i + 1)

\* the vectors are swapped and counted; an empty frontier sets failed and
\* breaks, which ends in "It's impossible"; otherwise the inputs are
\* levelled for the next step
SMSwap ==
    /\ pc = "sm_swap"
    /\ \E len \in { total_len(thread_outputs) } :
          IF len = 0
          THEN /\ pc' = "sm_impossible"
               /\ thread_tasks' = thread_outputs
               /\ thread_outputs' = thread_tasks
          ELSE /\ pc' = "sm_head"
               /\ thread_tasks' =
                     adjust_for_i(thread_outputs, len \div threads, 1)
               /\ thread_outputs' = thread_tasks
    /\ UNCHANGED << input_vars, list, st_vars, instructions_left,
                    notifiers, done, wpc, wbranch, ci, queue, cb_vars >>

\* failed, as the controller reads it after its loop
failed == pc = "sm_impossible"

\* thread_func: receiver.recv() returns with a message
SMWorkerRecv(i) ==
    /\ wpc[i] = "recv"
    /\ notifiers[i] > 0
    /\ notifiers' = [notifiers EXCEPT ![i] = @ - 1]
    /\ wpc' = [wpc EXCEPT ![i] = "run"]
    /\ wbranch' = [wbranch EXCEPT ![i] = 1]
    /\ UNCHANGED << input_vars, pc, list, st_vars, instructions_left,
                    thread_tasks, thread_outputs, done, ci, queue, cb_vars >>

\* thread_func: one direction of the state the drain yielded; marking the
\* goal sends done and restarts the outer loop, which drops the drain
SMWorkerStep(i) ==
    /\ wpc[i] = "run"
    /\ thread_tasks[i] # <<>>
    /\ \E r \in { thread_func_dir(list, Head(thread_tasks[i]),
                                  Direction_ALL[wbranch[i]]) } :
          /\ list' = r.list
          /\ IF r.found
             THEN /\ done' = done + 1
                  /\ wpc' = [wpc EXCEPT ![i] = "recv"]
                  /\ wbranch' = [wbranch EXCEPT ![i] = 1]
                  /\ thread_tasks' = [thread_tasks EXCEPT ![i] = <<>>]
                  /\ UNCHANGED thread_outputs
             ELSE /\ thread_outputs' =
                        [thread_outputs EXCEPT ![i] = @ \o r.push]
                  /\ IF wbranch[i] = 4
                     THEN /\ wbranch' = [wbranch EXCEPT ![i] = 1]
                          /\ thread_tasks' =
                                [thread_tasks EXCEPT ![i] = Tail(@)]
                     ELSE /\ wbranch' = [wbranch EXCEPT ![i] = @ + 1]
                          /\ UNCHANGED thread_tasks
                  /\ UNCHANGED << done, wpc >>
    /\ UNCHANGED << input_vars, pc, st_vars, instructions_left, notifiers,
                    ci, queue, cb_vars >>

\* thread_func: the drain is exhausted, sender.send(())
SMWorkerSend(i) ==
    /\ wpc[i] = "run"
    /\ thread_tasks[i] = <<>>
    /\ done' = done + 1
    /\ wpc' = [wpc EXCEPT ![i] = "recv"]
    /\ UNCHANGED << input_vars, pc, list, st_vars, instructions_left,
                    thread_tasks, thread_outputs, notifiers, wbranch, ci,
                    queue, cb_vars >>

\* get_bits of the back-walk; an index outside the allocated words panics
back_get_bits(state) ==
    LET i == calculate_visited_index(state, width, tiles_count)
    IN  IF i \in 0..(list.bits_len - 1)
        THEN [ok |-> TRUE, bits |-> multithreaded_AtomicBitSet_get_bits(list, i)]
        ELSE [ok |-> FALSE, bits |-> << <<FALSE, FALSE>>, <<FALSE, FALSE>> >>]

\* walker i (0 or 1) of the state put on pos
with_position(state, i, pos) ==
    IF i = 0 THEN <<pos[1], pos[2], state[3], state[4]>>
    ELSE <<state[1], state[2], pos[1], pos[2]>>

\* "for &hole in maps[i].holes_placement" from hole h on: the state with
\* walker i on the first hole whose moved bits equal bits0, the state with
\* walker i on (0,0) if there is none, <<>> if a read panicked
RECURSIVE back_find_hole(_, _, _, _)
back_find_hole(state, i, h, bits0) ==
    IF h > Len(maps[i + 1].holes_placement)
    THEN with_position(state, i, <<0, 0>>)
    ELSE LET s == with_position(state, i, maps[i + 1].holes_placement[h])
             r == back_get_bits(s)
         IN  IF ~r.ok THEN <<>>
             ELSE IF r.bits[1] = bits0 THEN s
             ELSE back_find_hole(state, i, h + 1, bits0)

\* the hole step of the back-walk: only the first walker found on (0,0),
\* if any, is looked up
back_adopt_hole(state, bits0) ==
    IF ~RESPECT_HOLES THEN state
    ELSE IF <<state[1], state[2]>> = <<0, 0>>
    THEN back_find_hole(state, 0, 1, bits0)
    ELSE IF <<state[3], state[4]>> = <<0, 0>>
    THEN back_find_hole(state, 1, 1, bits0)
    ELSE state

\* the back-walk is over: the directions are printed in reverse
SMPrint ==
    /\ pc = "sm_back"
    /\ cb_state = State_START
    /\ instructions' = Reverse(dirs)
    /\ pc' = "sm_printed"
    /\ UNCHANGED << input_vars, list, st_vars, instructions_left, mt_vars,
                    queue, cb_state, dirs, moves >>

\* one iteration of "while current_state != State::START".  A coordinate
\* that would go below zero panics in a build with overflow checks and
\* wraps in one without; a wrapped coordinate is kept as the negative
\* number, whose index is outside the bit set whenever it is negative.
SMBackStep ==
    /\ pc = "sm_back"
    /\ cb_state # State_START
    /\ Len(dirs) < MaxDirs
    /\ \E r \in { back_get_bits(cb_state) } :
        IF ~r.ok \/ r.bits[1] = <<FALSE, FALSE>>
        THEN pc' = "sm_panic" /\ UNCHANGED cb_vars
        ELSE \E s \in { back_adopt_hole(cb_state, r.bits[1]) } :
             \E dir \in { Direction_opposite(Direction_from_bits(r.bits[2])) } :
               IF s = <<>>
               THEN pc' = "sm_panic" /\ UNCHANGED cb_vars
               ELSE \E n \in
                      { (IF r.bits[1][1]
                         THEN Direction_apply(dir, <<s[1], s[2]>>)
                         ELSE <<s[1], s[2]>>)
                        \o (IF r.bits[1][2]
                            THEN Direction_apply(dir, <<s[3], s[4]>>)
                            ELSE <<s[3], s[4]>>) } :
                    \/ /\ \E k \in 1..4 : n[k] < 0 /\ n[k] < s[k]
                       /\ pc' = "sm_panic" /\ UNCHANGED cb_vars
                    \/ /\ dirs' = Append(dirs, Direction_from_bits(r.bits[2]))
                       /\ cb_state' = n
                       /\ moves' = moves + B2N(r.bits[1][1])
                                         + B2N(r.bits[1][2])
                       /\ UNCHANGED << pc, instructions >>
    /\ UNCHANGED << input_vars, list, st_vars, instructions_left, mt_vars,
                    queue >>

SMNext ==
    \/ SMLaunch
    \/ SMLoopHead
    \/ SMNotify
    \/ SMRecv
    \/ SMSwap
    \/ \E i \in DOMAIN wpc : SMWorkerRecv(i)
    \/ \E i \in DOMAIN wpc : SMWorkerStep(i)
    \/ \E i \in DOMAIN wpc : SMWorkerSend(i)
    \/ SMBackStep
    \/ SMPrint

SpecSM == SMInit /\ [][SMNext]_vars

\* both maps are the corridor of four tiles in a row, without inner walls
\* and holes
Corridor4x1 ==
    /\ width = 4 /\ height = 1
    /\ maps = << MapRead(4, 1, {}, {}, <<>>), MapRead(4, 1, {}, {}, <<>>) >>

\* C17: solve_multithreaded declares failure only if the visited bit of the
\* goal is not set when the controller loop ends
C17_AsStated ==
    failed => ~multithreaded_AtomicBitSet_visited(list, end)

\* the controller broke out of its loop with failed set on the two 4x1
\* corridors although a worker had marked the goal in that step
C17_Witness ==
    /\ Corridor4x1
    /\ failed
    /\ multithreaded_AtomicBitSet_visited(list, end)

\* the raw state of the first candidate of the state, in branch order from
\* order on, that stands for A (<<>> if there is none)
RECURSIVE FirstRaw(_, _, _)
FirstRaw(state, A, order) ==
    IF order = <<>> THEN <<>>
    ELSE LET raw == JointStep(FALSE, maps, state, ALL_INSTRUCTIONS[Head(order)])
         IN  IF raw # state /\ Adjusted(raw) = A THEN raw
             ELSE FirstRaw(state, A, Tail(order))

\* the raw states other than A that stand for A and hold a code in the list
WrittenRaws(l, A) ==
    { R \in GridStates(width, height) :
        /\ R # A /\ Adjusted(R) = A
        /\ DeltaList_get(l, calculate_visited_index(R, width, tiles_count))
              # 0 }

\* C25: with holes respected, when a call emits a successor A whose raw
\* state R differs from A, the slots of R and of A hold the same code after
\* the call and after every later call; and for every written state A other
\* than the start at most one raw state R # A that stands for A holds a code.
C25_RawHoldsCodeOfAdjusted ==
    (strategy = "kernel" /\ RESPECT_HOLES) =>
        /\ \A n \in DOMAIN calls : \A j \in DOMAIN calls[n].output :
              \E A \in { calls[n].output[j] } :
              \E R \in { FirstRaw(calls[n].state, A, <<2, 1, 4, 3>>) } :
                  /\ R # <<>>
                  /\ R # A =>
                        \A m \in n..Len(calls) :
                            /\ DeltaList_get(calls[m].after,
                                   calculate_visited_index(R, width,
                                                           tiles_count)) # 0
                            /\ DeltaList_get(calls[m].after,
                                   calculate_visited_index(R, width,
                                                           tiles_count))
                                 = DeltaList_get(calls[m].after,
                                       calculate_visited_index(A, width,
                                                               tiles_count))
        /\ \A A \in GridStates(width, height) :
              (A # <<0, 0, 0, 0>>
                 /\ DeltaList_get(list, calculate_visited_index(
                                            A, width, tiles_count)) # 0)
                 => Cardinality(WrittenRaws(list, A)) <= 1

\* a first call has emitted a successor through a hole and a second call
\* has written further states
C25_Witness ==
    /\ strategy = "kernel" /\ RESPECT_HOLES /\ Len(calls) = 2
    /\ calls[2].output # <<>>
    /\ \E j \in DOMAIN calls[1].output :
          /\ calls[1].output[j] # <<0, 0, 0, 0>>
          /\ FirstRaw(calls[1].state, calls[1].output[j], <<2, 1, 4, 3>>)
                \notin { <<>>, calls[1].output[j] }

\* bit b of a code (bit 3 is the highest of the four)
CodeBit(code, b) == (code \div (2 ^ b)) % 2

\* the slots a call has written and the code each of them got
NewCodes(call) ==
    { <<k, DeltaList_get(call.after, k)>> :
        k \in { j \in 0..(states_count - 1) :
                  /\ DeltaList_get(call.before, j) = 0
                  /\ DeltaList_get(call.after, j) # 0 } }

\* the code packs the movement of the instruction from the state to raw
Packs(code, state, instruction, raw) ==
    /\ CodeBit(code, 3) = B2N(<<raw[1], raw[2]>> # <<state[1], state[2]>>)
    /\ CodeBit(code, 2) = B2N(<<raw[3], raw[4]>> # <<state[3], state[4]>>)
    /\ CodeBit(code, 1) = B2N(instruction[1])
    /\ CodeBit(code, 0) = B2N(instruction[2])

\* C29: every code a call of the kernel writes packs the movement of one
\* instruction from the expanded state: bit3 tells that walker 0 left its
\* tile, bit2 that walker 1 left its tile, bit1 that the instruction is on
\* the x axis, bit0 that its direction is +; the slot it is written to is the
\* one of the state the instruction leads to (or of its raw state); bit3 or
\* bit2 is set, so the code is neither 0000 nor the sentinel 0001; and a
\* written code never changes.
C29_CodePacksMovement ==
    strategy = "kernel" =>
        \A n \in DOMAIN calls :
            /\ \A w \in NewCodes(calls[n]) :
                  /\ w[2] \in 4..15
                  /\ CodeBit(w[2], 3) = 1 \/ CodeBit(w[2], 2) = 1
                  /\ \E m \in 1..4 :
                     \E raw \in { JointStep(FALSE, maps, calls[n].state,
                                            ALL_INSTRUCTIONS[m]) } :
                        /\ w[1] \in { idx(raw), idx(Adjusted(raw)) }
                        /\ Packs(w[2], calls[n].state, ALL_INSTRUCTIONS[m],
                                 raw)
            /\ \A k \in 0..(states_count - 1) :
                  DeltaList_get(calls[n].before, k) # 0 =>
                      DeltaList_get(calls[n].after, k)
                          = DeltaList_get(calls[n].before, k)

\* one call has written a code of a + instruction that moved walker 0 only
\* and a code of a - instruction that moved walker 1 only
C29_Witness ==
    /\ strategy = "kernel"
    /\ \E n \in DOMAIN calls :
          /\ \E w \in NewCodes(calls[n]) :
                CodeBit(w[2], 3) = 1 /\ CodeBit(w[2], 2) = 0
                   /\ CodeBit(w[2], 0) = 1
          /\ \E w \in NewCodes(calls[n]) :
                CodeBit(w[2], 3) = 0 /\ CodeBit(w[2], 2) = 1
                   /\ CodeBit(w[2], 0) = 0

(***************************************************************************)
(* The balancing of the controller, one loop iteration at a time (bfs.rs   *)
(* 283-311, multithreaded.rs 234-255).  thread_tasks are the vectors after *)
(* the swap; calls keeps the variant, the loop variables i and j, avg_len, *)
(* the vectors before the balancing and the last transfer.  In             *)
(* multi_threaded_bfs j is declared before the outer loop and is never     *)
(* reset; in solve_multithreaded the inner loop is "for j in 0..threads".  *)
(***************************************************************************)
MaxSlices == 3
MaxSliceLen == 3

\* a slice cut without the lower limit avg_len
split_point_unclamped(len_j, len_i, avg_len) == len_j - (avg_len - len_i)

\* a cut computed with the sign of the receiver's need turned round
split_point_added(len_j, len_i, avg_len) ==
    Max(len_j + (avg_len - len_i), avg_len)

\* let l = (input_j.len() - (avg_len - input_i.len())).max(avg_len)
split_point(len_j, len_i, avg_len) ==
    Max(len_j - (avg_len - len_i), avg_len)

BalInit ==
    /\ strategy = "balance"
    /\ kind = "none" /\ Q = "none" /\ use_hash_map_first = FALSE
    /\ RESPECT_HOLES = FALSE
    /\ width = 1 /\ height = 1 /\ maps = <<>>
    /\ list = [kind |-> "none", panicked |-> FALSE]
    /\ threads \in 1..MaxSlices
    /\ \E lens \in [1..threads -> 0..MaxSliceLen],
          variant \in {"multi_threaded_bfs", "solve_multithreaded"} :
          \E slices \in { [t \in 1..threads |->
                             [k \in 1..lens[t] |-> <<t, k, 0, 0>>]] } :
             \* len == 0 breaks out of the loop before the balancing
             /\ total_len(slices) > 0
             /\ thread_tasks = slices
             /\ calls = [variant |-> variant, i |-> 0, j |-> 0,
                         avg_len |-> total_len(slices) \div threads,
                         before |-> slices, moved |-> <<>>]
    /\ pc = "balance_for"
    /\ tasks = <<>> /\ output = <<>> /\ instructions_left = 0
    /\ thread_outputs = <<>> /\ notifiers = <<>> /\ done = FALSE
    /\ wpc = <<>> /\ wbranch = <<>> /\ ci = 0
    /\ queue = [type |-> "none", panicked |-> FALSE]
    /\ cb_state = <<0, 0, 0, 0>> /\ dirs = <<>> /\ instructions = <<>>
    /\ moves = 0

\* for i in 0..threads: a vector with avg_len entries or more is passed over
BalanceFor ==
    /\ strategy = "balance" /\ pc = "balance_for"
    /\ IF calls.i >= threads
       THEN pc' = "balanced" /\ UNCHANGED calls
       ELSE IF Len(thread_tasks[calls.i + 1]) >= calls.avg_len
       THEN calls' = [calls EXCEPT !.i = @ + 1] /\ UNCHANGED pc
       ELSE /\ pc' = "balance_while"
            /\ calls' = [calls EXCEPT
                           !.j = IF calls.variant = "solve_multithreaded"
                                 THEN 0 ELSE @]
    /\ UNCHANGED << width, height, maps, RESPECT_HOLES, strategy, Q,
                    use_hash_map_first, kind, threads, list, st_vars,
                    instructions_left, mt_vars, queue, cb_vars >>

\* one iteration of the inner loop: j is passed over, or the tail of
\* input_j from l on is moved to the end of input_i
BalanceWhile ==
    /\ strategy = "balance" /\ pc = "balance_while"
    /\ \E i \in { calls.i }, j \in { calls.j } :
          IF j >= threads
          THEN /\ pc' = "balance_for"
               /\ calls' = [calls EXCEPT !.i = @ + 1]
               /\ UNCHANGED thread_tasks
          ELSE IF j = i \/ Len(thread_tasks[j + 1]) <= calls.avg_len
          THEN /\ calls' = [calls EXCEPT !.j = @ + 1]
               /\ UNCHANGED << pc, thread_tasks >>
          ELSE
          \E input_i \in { thread_tasks[i + 1] },
             input_j \in { thread_tasks[j + 1] } :
          \E l \in { split_point(Len(input_j), Len(input_i),
                                 calls.avg_len) } :
             /\ thread_tasks' =
                   [thread_tasks EXCEPT
                      ![i + 1] = input_i \o SubSeq(input_j, l + 1,
                                                   Len(input_j)),
                      ![j + 1] = SubSeq(input_j, 1, l)]
             /\ IF Len(thread_tasks'[i + 1]) >= calls.avg_len
                THEN \* break
                     /\ pc' = "balance_for"
                     /\ calls' = [calls EXCEPT
                                    !.i = @ + 1,
                                    !.moved = [from |-> j, to |-> i,
                                               count |-> Len(input_j) - l]]
                ELSE /\ UNCHANGED pc
                     /\ calls' = [calls EXCEPT
                                    !.j = IF calls.variant
                                               = "solve_multithreaded"
                                          THEN @ + 1 ELSE @,
                                    !.moved = [from |-> j, to |-> i,
                                               count |-> Len(input_j) - l]]
    /\ UNCHANGED << width, height, maps, RESPECT_HOLES, strategy, Q,
                    use_hash_map_first, kind, threads, list, st_vars,
                    instructions_left, thread_outputs, notifiers, done, wpc,
                    wbranch, ci, queue, cb_vars >>

BalNext == BalanceFor \/ BalanceWhile

SpecBalance == BalInit /\ [][BalNext]_vars

\* the entries of the vectors, as a set
Entries(slices) ==
    UNION { { slices[t][k] : k \in DOMAIN slices[t] } : t \in DOMAIN slices }

\* C30: the balancing of multi_threaded_bfs and of solve_multithreaded, with
\* avg_len = len / threads: when it ends every vector has avg_len entries or
\* more; a vector that had avg_len entries or more never has fewer than
\* avg_len; every transfer moves min(input_j.len - avg_len, avg_len -
\* input_i.len) entries, at least one, from the tail of input_j to the end
\* of input_i and touches no other vector; no entry is lost or doubled; and
\* the result is the one of the whole loop (balance, adjust_for_i).
C30_Rebalanced ==
    /\ [](strategy = "balance" =>
            /\ \A t \in 1..threads :
                  Len(calls.before[t]) >= calls.avg_len
                     => Len(thread_tasks[t]) >= calls.avg_len
            /\ total_len(thread_tasks) = total_len(calls.before)
            /\ Entries(thread_tasks) = Entries(calls.before)
            /\ pc = "balanced" =>
                  /\ \A t \in 1..threads :
                        Len(thread_tasks[t]) >= calls.avg_len
                  /\ thread_tasks =
                        IF calls.variant = "multi_threaded_bfs"
                        THEN balance(calls.before, total_len(calls.before))
                        ELSE adjust_for_i(calls.before, calls.avg_len, 1))
    /\ [][ (strategy = "balance" /\ thread_tasks' # thread_tasks) =>
             \E i, j \in 1..threads :
             \E n \in { Min(Len(thread_tasks[j]) - calls.avg_len,
                            calls.avg_len - Len(thread_tasks[i])) } :
                /\ i # j /\ n >= 1
                /\ calls'.moved = [from |-> j - 1, to |-> i - 1, count |-> n]
                /\ thread_tasks'[i] =
                      thread_tasks[i]
                         \o SubSeq(thread_tasks[j],
                                   Len(thread_tasks[j]) - n + 1,
                                   Len(thread_tasks[j]))
                /\ thread_tasks'[j] =
                      SubSeq(thread_tasks[j], 1, Len(thread_tasks[j]) - n)
                /\ \A t \in 1..threads \ {i, j} :
                      thread_tasks'[t] = thread_tasks[t] ]_vars

\* the balancing has ended and a vector that was empty holds entries of two
\* other vectors
C30_Witness ==
    /\ strategy = "balance" /\ pc = "balanced" /\ threads = 3
    /\ \E t \in 1..threads :
          /\ calls.before[t] = <<>>
          /\ Cardinality({ e[1] : e \in Entries(<<thread_tasks[t]>>) }) = 2

\* the number of positions of the vectors that hold the entry e
RECURSIVE Occurrences(_, _)
Occurrences(slices, e) ==
    IF slices = <<>> THEN 0
    ELSE Cardinality({ k \in DOMAIN Head(slices) : Head(slices)[k] = e })
            + Occurrences(Tail(slices), e)

\* the inner loop stands before a transfer from j to i
TransferPending ==
    /\ pc = "balance_while" /\ calls.j < threads /\ calls.j # calls.i
    /\ Len(thread_tasks[calls.j + 1]) > calls.avg_len

\* C31: the balancing keeps the multiset of the entries of all vectors: at
\* every point of the two loops each entry occurs as often as before the
\* balancing; and where a transfer is about to be made, the subtractions
\* avg_len - input_i.len and input_j.len - (avg_len - input_i.len) are of a
\* smaller from a larger unsigned number and avg_len <= l <= input_j.len.
C31_EntriesKept ==
    strategy = "balance" =>
        /\ \A e \in Entries(calls.before) \cup Entries(thread_tasks) :
              Occurrences(thread_tasks, e) = Occurrences(calls.before, e)
        /\ TransferPending =>
              \E len_i \in { Len(thread_tasks[calls.i + 1]) },
                 len_j \in { Len(thread_tasks[calls.j + 1]) } :
              \E l \in { split_point(len_j, len_i, calls.avg_len) } :
                 /\ len_i <= calls.avg_len
                 /\ calls.avg_len - len_i <= len_j
                 /\ calls.avg_len <= l /\ l <= len_j

\* the balancing of solve_multithreaded has ended after a transfer, and a
\* vector holds entries that another vector held before
C31_Witness ==
    /\ strategy = "balance" /\ pc = "balanced"
    /\ calls.variant = "solve_multithreaded"
    /\ calls.moved # <<>>
    /\ \E t \in 1..threads :
          ~(Entries(<<thread_tasks[t]>>) \subseteq Entries(<<calls.before[t]>>))

(***************************************************************************)
(* apply_instruction called directly (instructions.rs): a caller moves     *)
(* the two walkers of cb_state, one call at a time, with either value of   *)
(* end_lock (the simulation of the callback passes true, bfs_2d_distances  *)
(* passes false).  calls is the latest call.                               *)
(***************************************************************************)
SimInit ==
    /\ strategy = "simulate"
    /\ kind = "none" /\ threads = 1
    /\ Q = "none" /\ use_hash_map_first = FALSE
    /\ width = 2 /\ height = 2 /\ maps \in SmallMapPairs(2, 2)
    /\ RESPECT_HOLES \in BOOLEAN
    /\ list = [kind |-> "none", panicked |-> FALSE]
    /\ calls = <<>>
    /\ InitIdle

SimApply(i, instruction, end_lock) ==
    /\ strategy = "simulate"
    /\ \E pos \in { << cb_state[2 * i - 1], cb_state[2 * i] >> } :
       \E a \in { apply_instruction(RESPECT_HOLES, instruction, maps[i], pos,
                                    end_lock) } :
          /\ cb_state' = [cb_state EXCEPT ![2 * i - 1] = a.pos[1],
                                          ![2 * i] = a.pos[2]]
          /\ calls' = [walker |-> i, instruction |-> instruction,
                       end_lock |-> end_lock, before |-> pos,
                       after |-> a.pos, ret |-> a.ret]
    /\ UNCHANGED << width, height, maps, RESPECT_HOLES, strategy, Q,
                    use_hash_map_first, kind, threads, pc, list, st_vars,
                    instructions_left, mt_vars, queue, dirs, instructions,
                    moves >>

SimNext ==
    \E i \in 1..2, n \in 1..4, end_lock \in BOOLEAN :
        SimApply(i, ALL_INSTRUCTIONS[n], end_lock)

SpecSim == SimInit /\ [][SimNext]_vars

\* the wall the instruction runs into from pos, if there is one
WallBlocked(map, pos, instruction) ==
    IF instruction[1]
    THEN vertical_wall_index(map, pos[1] + B2N(instruction[2]), pos[2])
            \in map.vertical_walls
    ELSE horizontal_wall_index(map, pos[1], pos[2] + B2N(instruction[2]))
            \in map.horizontal_walls

\* the latest call found the walker on the end tile, with no wall in the
\* direction of the instruction
CalledOnEnd ==
    /\ strategy = "simulate" /\ calls # <<>>
    /\ calls.before = << width - 1, height - 1 >>
    /\ ~WallBlocked(maps[calls.walker], calls.before, calls.instruction)

ValidState(s) ==
    RESPECT_HOLES =>
        /\ tile_index_with(s[1], s[2], width) \notin maps[1].holes
        /\ tile_index_with(s[3], s[4], width) \notin maps[2].holes

\* the instruction of the b-th branch of the kernel: (x,-), (y,-), (x,+),
\* (y,+)
BranchInstruction(b) == ALL_INSTRUCTIONS[<<2, 1, 4, 3>>[b]]

\* what the b-th branch of the kernel emits for the state on an empty list
KernelCandidate(s, b) ==
    handle_non_adjusted(
        [output |-> <<>>, delta_list |-> DeltaList_new(kind, states_count)],
        RESPECT_HOLES, maps, width, tiles_count, s,
        Branches(maps, width, height, s)[b][1],
        Branches(maps, width, height, s)[b][2]).output

AfterPrefix(n) ==
    LET a == apply_instructions(RESPECT_HOLES, SubSeq(instructions, 1, n),
                                maps[1], <<0, 0>>)
        b == apply_instructions(RESPECT_HOLES, SubSeq(instructions, 1, n),
                                maps[2], <<0, 0>>)
    IN  << a[1], a[2], b[1], b[2] >>

\* C39: every code the callback decodes on its way back has bit3 or bit2
\* set and adds 1 or 2 to moves, as many as it has of these bits; so
\* |dirs| <= moves <= 2 * |dirs| throughout, |instructions| <= moves <=
\* 2 * |instructions| for every non-empty result, and every instruction of
\* the result makes at least one walker step when the result is simulated.
C39_EveryInstructionMoves ==
    /\ [][ (pc = "callback" /\ dirs' # dirs) =>
             \E code \in { DeltaList_get(list, idx(cb_state)) } :
                /\ CodeBit(code, 3) = 1 \/ CodeBit(code, 2) = 1
                /\ moves' - moves = CodeBit(code, 3) + CodeBit(code, 2)
                /\ dirs' = Append(dirs, << CodeBit(code, 1) = 1,
                                           CodeBit(code, 0) = 1 >>) ]_vars
    /\ [](pc = "callback" =>
            Len(dirs) <= moves /\ moves <= 2 * Len(dirs))
    /\ []((Finished /\ instructions # <<>>) =>
            /\ Len(instructions) <= moves
            /\ moves <= 2 * Len(instructions)
            /\ \A n \in 1..Len(instructions) :
                  JointStep(FALSE, maps, AfterPrefix(n - 1), instructions[n])
                     # AfterPrefix(n - 1))

\* a result on which one instruction moves both walkers and another moves
\* only one
C39_Witness ==
    /\ Finished /\ instructions # <<>>
    /\ Len(instructions) < moves /\ moves < 2 * Len(instructions)

(***************************************************************************)
(* launch_bfs_2d (bfs.rs): the search for one walker at a time.  list is a *)
(* BitSetDeltaList<3> over the tiles, with the bits [x_dimension,          *)
(* direction, written]; tasks and output hold positions; calls keeps the   *)
(* phase (1: walker 0 from (0,0) on maps[0]; 2: walker 1 on maps[1] from   *)
(* where the instructions of phase 1 leave it) and start_state; cb_state   *)
(* is the position of the back-walk of bfs_2d_reconstruction.  A back-walk *)
(* that has pushed more directions than the map has tiles has been in one  *)
(* position twice and repeats itself for ever: pc becomes "diverged".      *)
(***************************************************************************)
\* BitSetDeltaList::<3>::inner_new
inner_new(len) ==
    [kind |-> "BitSet3", len |-> len, bit_sets |-> <<{}, {}, {}>>,
     panicked |-> FALSE]

inner_get_bit(l, index, bit) == index \in l.bit_sets[bit + 1]

inner_get_bits_3(l, index) == [i \in 1..3 |-> index \in l.bit_sets[i]]

inner_set_bits_3(l, FORCED, index, bits) ==
    IF FORCED \/ inner_get_bits_3(l, index) = <<FALSE, FALSE, FALSE>>
    THEN [list |-> [l EXCEPT !.bit_sets =
                       [i \in 1..3 |-> IF bits[i] THEN @[i] \cup {index}
                                                  ELSE @[i] \ {index}]],
          ret |-> TRUE]
    ELSE [list |-> l, ret |-> FALSE]

inner_clear(l) == [l EXCEPT !.bit_sets = <<{}, {}, {}>>]

tile_index_with_vec(state, w) == tile_index_with(state[1], state[2], w)

\* the body of the loop of bfs_2d for the tasks from the n-th instruction
\* of the first task on: the list and the output after the pass
RECURSIVE bfs_2d_pass(_, _, _, _, _, _)
bfs_2d_pass(rh, map, tasks_, n, l, out) ==
    IF tasks_ = <<>> THEN [list |-> l, output |-> out]
    ELSE IF n > 4 THEN bfs_2d_pass(rh, map, Tail(tasks_), 1, l, out)
    ELSE The({ The({ bfs_2d_pass(rh, map, tasks_, n + 1, r.list,
                                 IF r.ret THEN Append(out, state) ELSE out) :
                     r \in { inner_set_bits_3(l, FALSE,
                                 tile_index_with_vec(state, map.width),
                                 << ALL_INSTRUCTIONS[n][1],
                                    ALL_INSTRUCTIONS[n][2], TRUE >>) } }) :
               state \in { apply_instruction(rh, ALL_INSTRUCTIONS[n], map,
                                             Head(tasks_), FALSE).pos } })

\* the first hole of the list whose written bit is set, or the state
find_written_hole(l, map, state, k) ==
    LET written == { i \in k..Len(map.holes_placement) :
                       inner_get_bit(l, tile_index_with_vec(
                                            map.holes_placement[i],
                                            map.width), 2) }
    IN  IF written = {} THEN state
        ELSE map.holes_placement[CHOOSE i \in written :
                                    \A j \in written : i <= j]

\* bfs_2d up to its loop: the start is marked and pushed
bfs_2d_start(l, start_state, map) ==
    inner_set_bits_3(l, TRUE, tile_index_with_vec(start_state, map.width),
                     <<TRUE, TRUE, TRUE>>).list

Init2D ==
    /\ strategy = "bfs_2d"
    /\ kind = "none" /\ threads = 1
    /\ Q = "none" /\ use_hash_map_first = FALSE
    /\ width = 3 /\ height = 3 /\ maps \in SmallMapPairs(3, 3)
    /\ RESPECT_HOLES \in BOOLEAN
    /\ list = [kind |-> "none", panicked |-> FALSE]
    /\ calls = [phase |-> 0, start_state |-> <<0, 0>>]
    /\ InitIdle

\* launch_bfs_2d up to the loop of the first bfs_2d
Launch2D ==
    /\ strategy = "bfs_2d" /\ pc = "launch"
    /\ list' = bfs_2d_start(inner_new(width * height), <<0, 0>>, maps[1])
    /\ tasks' = << <<0, 0>> >>
    /\ output' = <<>>
    /\ calls' = [phase |-> 1, start_state |-> <<0, 0>>]
    /\ pc' = "bfs_2d"
    /\ UNCHANGED << width, height, maps, RESPECT_HOLES, strategy, Q,
                    use_hash_map_first, kind, threads, instructions_left,
                    mt_vars, queue, cb_vars >>

\* one pass of the loop of bfs_2d; break false ends launch_bfs_2d (in phase
\* 2 with instructions.clear()), break true enters bfs_2d_reconstruction
Bfs2dPass ==
    /\ strategy = "bfs_2d" /\ pc = "bfs_2d"
    /\ \E map \in { maps[calls.phase] } :
          IF tasks = <<>>
          THEN /\ pc' = "done"
               /\ instructions' = <<>>
               /\ UNCHANGED << list, tasks, output, cb_state, dirs >>
          ELSE \E r \in { bfs_2d_pass(RESPECT_HOLES, map, tasks, 1, list,
                                      output) } :
                  /\ list' = r.list
                  /\ IF inner_get_bit(r.list,
                           tile_index_with_vec(<<map.width - 1,
                                                 map.height - 1>>,
                                               map.width), 2)
                     THEN /\ pc' = "bfs_2d_reconstruction"
                          /\ tasks' = <<>>
                          /\ output' = r.output
                          /\ cb_state' = <<map.width - 1, map.height - 1>>
                          /\ dirs' = <<>>
                     ELSE /\ pc' = "bfs_2d"
                          /\ tasks' = r.output
                          /\ output' = <<>>
                          /\ UNCHANGED << cb_state, dirs >>
                  /\ UNCHANGED instructions
    /\ UNCHANGED << width, height, maps, RESPECT_HOLES, strategy, Q,
                    use_hash_map_first, kind, threads, instructions_left,
                    mt_vars, queue, calls, moves >>

\* one pass of the loop "while state != start_state"
Reconstruction2DStep ==
    /\ strategy = "bfs_2d" /\ pc = "bfs_2d_reconstruction"
    /\ cb_state # calls.start_state
    /\ \E map \in { maps[calls.phase] } :
       \E delta_i \in { inner_get_bits_3(list,
                            tile_index_with_vec(cb_state, map.width)) } :
       \E state \in { IF RESPECT_HOLES /\ cb_state = <<0, 0>>
                      THEN find_written_hole(list, map, cb_state, 1)
                      ELSE cb_state } :
          /\ cb_state' = apply_instruction(FALSE, << delta_i[1], ~delta_i[2] >>,
                                           map, state, FALSE).pos
          /\ dirs' = Append(dirs, << delta_i[1], delta_i[2] >>)
          /\ pc' = IF Len(dirs) >= map.width * map.height THEN "diverged"
                   ELSE "bfs_2d_reconstruction"
    /\ UNCHANGED << width, height, maps, RESPECT_HOLES, strategy, Q,
                    use_hash_map_first, kind, threads, list, st_vars,
                    instructions_left, mt_vars, queue, calls, instructions,
                    moves >>

\* the back-walk has reached start_state: the directions are appended in
\* reverse; after phase 1 the instructions are applied to the second walker
\* and, unless they take it to the end tile, bfs_2d starts on maps[1]
Reconstruction2DFinish ==
    /\ strategy = "bfs_2d" /\ pc = "bfs_2d_reconstruction"
    /\ cb_state = calls.start_state
    /\ instructions' = instructions \o Reverse(dirs)
    /\ IF calls.phase = 1
       THEN \E start_state \in { apply_instructions(RESPECT_HOLES,
                                     instructions', maps[2], <<0, 0>>) } :
               IF start_state = << width - 1, height - 1 >>
               THEN /\ pc' = "done"
                    /\ UNCHANGED << list, tasks, output, calls >>
               ELSE /\ list' = bfs_2d_start(inner_clear(list), start_state,
                                            maps[2])
                    /\ tasks' = << start_state >>
                    /\ output' = <<>>
                    /\ calls' = [phase |-> 2, start_state |-> start_state]
                    /\ pc' = "bfs_2d"
       ELSE /\ pc' = "done"
            /\ UNCHANGED << list, tasks, output, calls >>
    /\ UNCHANGED << width, height, maps, RESPECT_HOLES, strategy, Q,
                    use_hash_map_first, kind, threads, instructions_left,
                    mt_vars, queue, cb_state, dirs, moves >>

Next2D ==
    \/ Launch2D
    \/ Bfs2dPass
    \/ Reconstruction2DStep
    \/ Reconstruction2DFinish

Spec2D == Init2D /\ [][Next2D]_vars

\* C40 as stated: whenever bfs_2d has returned true, in phase 1 and in
\* phase 2 (holes respected or not, start_state = (0,0) or not), the
\* back-walk of bfs_2d_reconstruction reaches start_state, and the
\* instructions it appends take the walker from start_state to
\* (W-1,H-1).
C40_AsStated ==
    strategy = "bfs_2d" =>
        /\ pc # "diverged"
        /\ (pc = "bfs_2d_reconstruction" /\ cb_state = calls.start_state) =>
              apply_instructions(RESPECT_HOLES, Reverse(dirs),
                                 maps[calls.phase], calls.start_state)
                 = << width - 1, height - 1 >>

\* the back-walk of phase 2, with holes respected, stands on (0,0), which
\* is not start_state and which the search reached through a hole
C40_Witness ==
    /\ strategy = "bfs_2d" /\ pc = "bfs_2d_reconstruction"
    /\ RESPECT_HOLES /\ calls.phase = 2
    /\ calls.start_state # <<0, 0>> /\ cb_state = <<0, 0>>
    /\ dirs # <<>>
    /\ \E a \in { apply_instruction(TRUE,
                      << inner_get_bits_3(list, 0)[1],
                         inner_get_bits_3(list, 0)[2] >>,
                      maps[2], calls.start_state, FALSE) } : a.ret

====
